---- MODULE Spec2Model ----
(***************************************************************************)
(* Forward supervision in kubefwd: the direct PortForward supervisor with  *)
(* its retry/backoff monitor (portforward.go), the ProxyForward supervisor *)
(* (proxypod.go) and its dependent SqlTapManager (sqltap.go).              *)
(*                                                                         *)
(* Every section of code that runs under a supervisor's mutex is one       *)
(* action; the places where the code releases the mutex (backoff sleep,    *)
(* settle delay, tap stop) are the boundaries between actions.             *)
(***************************************************************************)
EXTENDS Integers, Sequences, FiniteSets, TLC

\* ---------------------------------------------------------------- bounds
MaxProcs == 2        \* subprocesses spawned in one run
MaxUserCalls == 3    \* Start()/Stop() calls the user issues in one run
MaxPortChanges == 2  \* times the local port changes hands in one run
MaxCallers == 2      \* concurrent callers of ProxyForward.Start/Stop
MaxServices == 2     \* proxy services in the configuration
MaxPodCalls == 3     \* calls made on the pod manager and the proxy forwards in one run
MaxInstances == 2    \* background-mode processes launched in one run
MaxRetryCount == 100 \* largest value of the retry counter a backoff is computed for
MaxLsofLines == 2    \* lines that lsof prints after its header
MaxPid == 2          \* PIDs that lsof reports
MaxRetriesValue == 2 \* largest max_retries a configuration sets
MaxPolls == 2        \* readiness polls that begin before the deadline of one wait
MaxThreads == 2      \* goroutines that call into one forward, its tap and the pod manager
MaxRefreshes == 2    \* port refreshes of the port checker that are in flight at once
MaxPorts == 2        \* configured ports the port checker lists

\* ------------------------------------------------------------- constants
StatusStopped == "stopped"
StatusStarting == "starting"
StatusRunning == "running"
StatusError == "error"

InfiniteRetries == -1
BackoffCapSeconds == 60

ProxyPodStatusNotCreated == "not_created"
ProxyPodStatusCreating == "creating"
ProxyPodStatusReady == "ready"
ProxyPodStatusError == "error"

BasePodPort == 10000 \* the relay port of the first selected service

Nil == <<>>          \* a nil *int of a config record; <<v>> points to v
NoProc == 0          \* nil *exec.Cmd, nil context.CancelFunc
NotStarted == -1     \* an exec.Cmd whose Start() failed

ProcIds == 1..MaxProcs
Callers == 1..MaxCallers

\* max_retries of the Config YAML and of the Service (*int) in the runs checked
ConfigChoices == {<<0, Nil>>, <<2, Nil>>, <<2, <<0>>>>, <<-1, <<1>>>>}

VARIABLES
    variant,     \* "direct" (Service) or "proxy" (ProxyService)
    cfgGlobal,   \* Config.MaxRetries as unmarshalled from YAML
    cfgService,  \* Service.MaxRetries as unmarshalled from YAML
    pf,          \* the PortForward struct
    px,          \* the ProxyForward struct
    tap,         \* the SqlTapManager struct
    procs,       \* every subprocess spawned: "unborn", "alive", "exit0", "exiterr",
                 \* "killed" (cancelled), "reaped" (a cmd.Wait() has returned)
    mon,         \* the monitor goroutines, one per spawned subprocess
    call,        \* ProxyForward.Start/Stop calls in flight, per caller
    portBusy,    \* OS: the local port is bound by some process
    hist,        \* observation record of the run
    proxyServices, \* Config.ProxyServices: the name of each configured proxy service
    pm,          \* the ProxyPodManager struct
    podExists,   \* cluster: a pod of the configured name exists
    fwds,        \* every ProxyForward object built so far, in order of creation
    fwdMap,      \* ManagementModel.proxyForwards: service name -> ProxyForward
    apply,       \* the ApplyProxySelection call in flight
    cmdline,     \* per subprocess: the ProxyForward that spawned it, the relay port
                 \* in its command line
    plog,        \* observation record of the pod manager's calls
    switched,    \* AppModel: the context was switched, the management model replaced
    inst,        \* the background-mode processes, by PID
    pidFile,     \* ~/.kubefwd.pid: the PID it holds, NoPid when there is no file
    pmu,         \* ProxyPodManager.mu: the CreatePodWithServices call that holds it,
                 \* and the GetStatus() poll of the view
    calc         \* the function under evaluation: its arguments and its result

podVars == <<proxyServices, pm, podExists, fwds, fwdMap, apply, cmdline, plog>>

\* what neither a supervisor nor the pod manager ever writes
bgVars == <<inst, pidFile>>

\* the interactive program around the supervisors
tuiVars == <<switched, pmu>>

pureVars == <<calc>>

sideVars == <<tuiVars, bgVars, pureVars>>

\* the supervisors of the interactive program
supVars == <<variant, cfgGlobal, cfgService, pf, px, tap, procs, mon, call, portBusy, hist>>

vars == <<variant, cfgGlobal, cfgService, pf, px, tap, procs, mon,
          call, portBusy, hist, podVars, sideVars>>

\* ------------------------------------------------------------ pure parts

Min(a, b) == IF a < b THEN a ELSE b

\* math.Pow(2, float64(n)), n >= 0: 2^n exactly while the exponent fits the
\* float64, +Inf beyond; above 2^30 the model keeps only that the value is
\* larger than every delay it is compared with
Pow2(n) == IF n <= 30 THEN 2 ^ n ELSE 2 ^ 30

\* a delay without the 60 second cap
BackoffNoCap(n) == Pow2(n)

\* backoffSeconds := math.Min(math.Pow(2, float64(pf.retryCount)), 60)
Backoff(n) == Min(Pow2(n), BackoffCapSeconds)

\* no function is under evaluation
NoCalc == [op |-> "none"]

\* LoadConfig: "Set default max_retries if not specified"
LoadConfigMaxRetries(yamlValue) ==
    IF yamlValue = 0 THEN InfiniteRetries ELSE yamlValue

\* a lookup that takes a per-service 0 for "not set"
ZeroIsUnset(serviceValue, globalMaxRetries) ==
    IF serviceValue # Nil /\ serviceValue[1] # 0 THEN serviceValue[1] ELSE globalMaxRetries

\* Service.GetMaxRetries
GetMaxRetries(serviceValue, globalMaxRetries) ==
    IF serviceValue # Nil THEN serviceValue[1] ELSE globalMaxRetries

Msg(kind, n) == [kind |-> kind, n |-> n]

NoMsg == Msg("", 0)

\* a guard that lets a Running supervisor through
OnlyStartingIsBusy(status) == status = StatusStarting

\* the guard shared by every Start(): "already running"
AlreadyRunning(status) == status = StatusRunning \/ status = StatusStarting

\* DetectPortConflict(...).HasConflict as seen by the OS probe
DetectPortConflict(busy) == busy

\* a retry decision that does not look at the ceiling
RetryWithoutCeiling(f) == ~f.manualStop

\* shouldRetry := !pf.manualStop && (pf.maxRetries == -1 || pf.retryCount < pf.maxRetries)
ShouldRetry(f) ==
    ~f.manualStop /\ (f.maxRetries = InfiniteRetries \/ f.retryCount < f.maxRetries)

\* context.CancelFunc: kills the subprocess of that context if it is alive
Cancel(ps, c) ==
    IF c \in ProcIds /\ ps[c] = "alive" THEN [ps EXCEPT ![c] = "killed"] ELSE ps

\* the error cmd.Wait() returns for command c (TRUE = non-nil); a second
\* Wait() on the same command returns an error
WaitErr(c) ==
    \/ c = NotStarted
    \/ c \in ProcIds /\ procs[c] \in {"exiterr", "killed", "reaped"}

\* cmd.Wait() can return: the command has exited or was never started
WaitReturns(c) ==
    \/ c = NotStarted
    \/ c \in ProcIds /\ procs[c] \in {"exit0", "exiterr", "killed", "reaped"}

FreeIds == {i \in ProcIds : procs[i] = "unborn"}

NextId == IF FreeIds = {} THEN NoProc ELSE CHOOSE i \in FreeIds : \A j \in FreeIds : i <= j

\* cmd.Wait() has returned for command c
Reap(ps, c) == IF c \in ProcIds THEN [ps EXCEPT ![c] = "reaped"] ELSE ps

\* a monitor goroutine: where it is, whose it is, the command it waits on,
\* the backoff it sleeps
IdleMon == [pc |-> "idle", kind |-> "none", cmd |-> NoProc, backoff |-> 0]

\* a monitor goroutine that has returned
DoneMon == [pc |-> "done", kind |-> "none", cmd |-> NoProc, backoff |-> 0]


\* ---------------------------------------------------- observation record

\* a returned Start()/Stop() call: who called, the status it found, what it
\* returned, and (ProxyForward) whether its call of the tap had returned and
\* whether it issued the parent's cancellation
Event(op, by, pre, ret) ==
    [op |-> op, by |-> by, pre |-> pre, ret |-> ret,
     tapDone |-> FALSE, cancelled |-> FALSE]

NoEvent == Event("none", "none", "none", "none")

InitHist ==
    [run      |-> "fresh",   \* "plain": one user Start() and nothing else from the
                             \* user, no port conflict, no clean exit, monitors wait on their own
                             \* subprocess; "mixed": any other run
     retries  |-> 0,         \* retries scheduled by monitors during a plain run
     stopped  |-> FALSE,     \* the user called Stop() after the last user Start()
     conflict |-> FALSE,     \* a Start() found the port occupied after the last user Start()
     calls    |-> 0,         \* Start()/Stop() calls the user has issued
     ports    |-> 0,         \* times the local port has changed hands
     ev       |-> NoEvent]   \* the last Start()/Stop() call that has returned

\* the next value of hist.run
Run(h, stillPlain) ==
    IF h.run = "mixed" \/ ~stillPlain THEN "mixed" ELSE "plain"

\* ------------------------------------------------ PortForward (direct)

\* what the port-conflict branch of NewPortForward and Start stores
ConflictError(f) ==
    [f EXCEPT !.HasConflict = TRUE, !.Status = StatusError,
              !.ErrorMessage = Msg("conflict", 0)]

\* NewPortForward
NewPortForward(maxRetries, busy) ==
    LET f == [Status |-> StatusStopped, ErrorMessage |-> NoMsg, HasConflict |-> FALSE,
              cmd |-> NoProc, cancel |-> NoProc, retryCount |-> 0,
              maxRetries |-> maxRetries, manualStop |-> FALSE, retrying |-> FALSE]
    IN IF DetectPortConflict(busy) THEN ConflictError(f) ELSE f

\* PortForward.Start: the struct after the call, the returned error, and
\* whether a subprocess (and its monitor) was spawned with identity id
PFStart(f, busy, spawnOk, id) ==
    IF AlreadyRunning(f.Status)
    THEN [pf |-> f, ret |-> "rejected", spawned |-> FALSE]
    ELSE IF DetectPortConflict(busy)
    THEN [pf |-> [ConflictError(f) EXCEPT !.manualStop = TRUE],
          ret |-> "conflict", spawned |-> FALSE]
    ELSE IF ~spawnOk
    THEN [pf |-> [f EXCEPT !.Status = StatusError, !.ErrorMessage = Msg("spawnfail", 0),
                           !.manualStop = FALSE, !.retrying = FALSE,
                           !.cancel = NotStarted, !.cmd = NotStarted],
          ret |-> "spawnfail", spawned |-> FALSE]
    ELSE [pf |-> [f EXCEPT !.Status = StatusRunning, !.ErrorMessage = NoMsg,
                           !.manualStop = FALSE, !.retrying = FALSE,
                           !.cancel = id, !.cmd = id, !.retryCount = 0],
          ret |-> "ok", spawned |-> TRUE]

\* the subprocess table and the monitors after a Start() outcome r
Spawn(ps, r, id) == IF r.spawned THEN [ps EXCEPT ![id] = "alive"] ELSE ps

GoMonitor(ms, r, id, kind) ==
    IF r.spawned THEN [ms EXCEPT ![id] = [IdleMon EXCEPT !.pc = "spawned", !.kind = kind]]
    ELSE ms

\* a Stop() without the early return: it writes its fields whatever the status
StopAlways(f) ==
    [f EXCEPT !.cancel = NoProc, !.Status = StatusStopped, !.ErrorMessage = NoMsg,
              !.manualStop = TRUE, !.retrying = FALSE]

\* PortForward.Stop
PFStop(f) ==
    IF ~AlreadyRunning(f.Status) THEN f
    ELSE [f EXCEPT !.cancel = NoProc, !.Status = StatusStopped, !.ErrorMessage = NoMsg,
                   !.manualStop = TRUE, !.retrying = FALSE]

\* the user (management view, preset, background manager) calls pf.Start()
UserStart(spawnOk) ==
    /\ variant = "direct" /\ hist.calls < MaxUserCalls
    /\ LET id == NextId
           r == PFStart(pf, portBusy, spawnOk, id)
       IN /\ r.spawned => id # NoProc
          /\ pf' = r.pf
          /\ procs' = Spawn(procs, r, id)
          /\ mon' = GoMonitor(mon, r, id, "pf")
          /\ hist' = [hist EXCEPT !.run = Run(hist, hist.run = "fresh" /\ r.ret # "conflict"),
                                  !.retries = 0,
                                  !.calls = @ + 1,
                                  !.stopped = FALSE,
                                  !.conflict = (r.ret = "conflict"),
                                  !.ev = Event("Start", "user", pf.Status, r.ret)]
    /\ UNCHANGED <<podVars, sideVars, variant, cfgGlobal, cfgService, px, tap, call, portBusy>>

\* the user calls pf.Stop()
UserStop ==
    /\ variant = "direct" /\ hist.calls < MaxUserCalls
    /\ pf' = PFStop(pf)
    /\ procs' = IF AlreadyRunning(pf.Status) THEN Cancel(procs, pf.cancel) ELSE procs
    /\ hist' = [hist EXCEPT !.run = "mixed", !.retries = 0, !.calls = @ + 1,
                            !.stopped = TRUE,
                            !.ev = Event("Stop", "user", pf.Status, "ok")]
    /\ UNCHANGED <<podVars, sideVars, variant, cfgGlobal, cfgService, px, tap, mon, call, portBusy>>

\* a refresh that records the probe but never leaves the Error status
RefreshKeepsError(f, busy) ==
    IF AlreadyRunning(f.Status) THEN f
    ELSE IF DetectPortConflict(busy) THEN ConflictError(f)
    ELSE [f EXCEPT !.HasConflict = FALSE]

\* PortForward.RefreshConflictStatus
RefreshConflictStatus(f, busy) ==
    IF AlreadyRunning(f.Status) THEN f
    ELSE IF DetectPortConflict(busy) THEN ConflictError(f)
    ELSE IF f.Status = StatusError /\ f.ErrorMessage.kind = "conflict"
    THEN [f EXCEPT !.HasConflict = FALSE, !.Status = StatusStopped, !.ErrorMessage = NoMsg]
    ELSE [f EXCEPT !.HasConflict = FALSE]

\* the user calls pf.RefreshConflictStatus()
UserRefresh ==
    /\ variant = "direct"
    /\ pf' = RefreshConflictStatus(pf, portBusy)
    /\ hist' = [hist EXCEPT !.run = "mixed", !.retries = 0,
                            !.ev = Event("Refresh", "user", pf.Status, "ok")]
    /\ UNCHANGED <<podVars, sideVars, variant, cfgGlobal, cfgService, px, tap, procs, mon, call, portBusy>>

\* monitor: err := pf.cmd.Wait() -- pf.cmd is read without the mutex
PFMonitorWait(m) ==
    /\ mon[m].kind = "pf" /\ mon[m].pc = "spawned"
    /\ mon' = [mon EXCEPT ![m].pc = "waiting", ![m].cmd = pf.cmd]
    /\ hist' = [hist EXCEPT !.run = Run(hist, pf.cmd = m),
                            !.retries = IF pf.cmd = m THEN @ ELSE 0]
    /\ UNCHANGED <<podVars, sideVars, variant, cfgGlobal, cfgService, pf, px, tap, procs, call, portBusy>>

\* a locked decision that takes every exit, clean or not, for a failure
RetryOnAnyExit(f, err) ==
    IF f.Status # StatusStopped
    THEN IF ShouldRetry(f)
         THEN [f EXCEPT !.retryCount = @ + 1, !.retrying = TRUE, !.Status = StatusError,
                        !.ErrorMessage = Msg("retrying", f.retryCount + 1)]
         ELSE [f EXCEPT !.Status = StatusError, !.retrying = FALSE,
                        !.ErrorMessage = Msg("exited", f.retryCount)]
    ELSE f

\* monitor: Wait() has returned; the locked decision that follows
PFMonitorExit(f, err) ==
    IF err /\ f.Status # StatusStopped
    THEN IF ShouldRetry(f)
         THEN [f EXCEPT !.retryCount = @ + 1, !.retrying = TRUE, !.Status = StatusError,
                        !.ErrorMessage = Msg("retrying", f.retryCount + 1)]
         ELSE [f EXCEPT !.Status = StatusError, !.retrying = FALSE,
                        !.ErrorMessage = Msg("exited", f.retryCount)]
    ELSE IF f.Status = StatusRunning THEN [f EXCEPT !.Status = StatusStopped] ELSE f

\* monitor: does the locked decision end in the backoff sleep
PFMonitorSleeps(f, err) == err /\ f.Status # StatusStopped /\ ShouldRetry(f)

PFMonitorObserve(m) ==
    /\ mon[m].kind = "pf" /\ mon[m].pc = "waiting"
    /\ WaitReturns(mon[m].cmd)
    /\ LET err == WaitErr(mon[m].cmd)
           retry == PFMonitorSleeps(pf, err)
       IN /\ pf' = PFMonitorExit(pf, err)
          /\ mon' = [mon EXCEPT ![m] = IF retry
                                         THEN [@ EXCEPT !.pc = "sleeping", !.cmd = NoProc,
                                                        !.backoff = Backoff(pf.retryCount)]
                                         ELSE DoneMon]
          /\ hist' = [hist EXCEPT !.retries = IF retry /\ hist.run = "plain" THEN @ + 1 ELSE @]
    /\ procs' = Reap(procs, mon[m].cmd)
    /\ UNCHANGED <<podVars, sideVars, variant, cfgGlobal, cfgService, px, tap, call, portBusy>>

\* monitor: the backoff sleep is over, "Attempt to restart": pf.Start()
PFMonitorRetry(m, spawnOk) ==
    /\ mon[m].kind = "pf" /\ mon[m].pc = "sleeping"
    /\ LET id == NextId
           r == PFStart(pf, portBusy, spawnOk, id)
       IN /\ r.spawned => id # NoProc
          /\ pf' = r.pf
          /\ procs' = Spawn(procs, r, id)
          /\ mon' = [GoMonitor(mon, r, id, "pf") EXCEPT
                        ![m] = IF r.ret = "ok" THEN DoneMon
                               ELSE [@ EXCEPT !.pc = "failed", !.backoff = 0]]
          /\ hist' = [hist EXCEPT !.run = Run(hist, r.ret # "conflict"),
                                  !.retries = IF r.ret = "conflict" THEN 0 ELSE @,
                                  !.conflict = @ \/ r.ret = "conflict",
                                  !.ev = Event("Start", "monitor", pf.Status, r.ret)]
    /\ UNCHANGED <<podVars, sideVars, variant, cfgGlobal, cfgService, px, tap, call, portBusy>>

\* monitor: its Start() returned an error; the locked section that follows
PFRetryFailed(f) ==
    IF f.manualStop
    THEN [f EXCEPT !.Status = StatusError, !.retrying = FALSE]
    ELSE [f EXCEPT !.Status = StatusError, !.ErrorMessage = Msg("retryfailed", 0)]

PFMonitorRetryFailed(m) ==
    /\ mon[m].kind = "pf" /\ mon[m].pc = "failed"
    /\ pf' = PFRetryFailed(pf)
    /\ mon' = [mon EXCEPT ![m] = DoneMon]
    /\ UNCHANGED <<podVars, sideVars, variant, cfgGlobal, cfgService, px, tap, procs, call, portBusy, hist>>

\* ------------------------------------------------------- the environment

\* a subprocess exits on its own, cleanly or not
ProcExit(p, clean) ==
    /\ procs[p] = "alive"
    /\ procs' = [procs EXCEPT ![p] = IF clean THEN "exit0" ELSE "exiterr"]
    /\ hist' = IF clean /\ hist.run = "plain"
               THEN [hist EXCEPT !.run = "mixed", !.retries = 0]
               ELSE hist
    /\ UNCHANGED <<podVars, sideVars, variant, cfgGlobal, cfgService, pf, px, tap, mon, call, portBusy>>

\* some process binds the local port, or the one holding it lets go
PortChange ==
    /\ variant = "direct" /\ hist.ports < MaxPortChanges
    /\ portBusy' = ~portBusy
    /\ hist' = [hist EXCEPT !.ports = @ + 1]
    /\ UNCHANGED <<podVars, sideVars, variant, cfgGlobal, cfgService, pf, px, tap, procs, mon, call>>

\* ------------------------------------------- SqlTapManager (dependent)

\* NewSqlTapManager
NewSqlTapManager(enabled) ==
    [enabled |-> enabled, status |-> StatusStopped, errorMessage |-> NoMsg,
     cmd |-> NoProc, cancel |-> NoProc]

\* SqlTapManager.Start, one locked section including the 500ms check;
\* early: the process has exited and cmd.ProcessState shows it at the check
TapStart(t, spawnOk, early, id) ==
    IF ~t.enabled
    THEN [tap |-> t, ret |-> "ok", spawned |-> FALSE]
    ELSE IF AlreadyRunning(t.status)
    THEN [tap |-> t, ret |-> "rejected", spawned |-> FALSE]
    ELSE IF ~spawnOk
    THEN [tap |-> [t EXCEPT !.status = StatusError, !.errorMessage = Msg("spawnfail", 0),
                            !.cancel = NotStarted, !.cmd = NotStarted],
          ret |-> "spawnfail", spawned |-> FALSE]
    ELSE IF early # "no"
    THEN [tap |-> [t EXCEPT !.status = StatusError, !.errorMessage = Msg("exitedimmediately", 0),
                            !.cancel = id, !.cmd = id],
          ret |-> "exited", spawned |-> TRUE]
    ELSE [tap |-> [t EXCEPT !.status = StatusRunning, !.errorMessage = NoMsg,
                            !.cancel = id, !.cmd = id],
          ret |-> "ok", spawned |-> TRUE]

\* SqlTapManager.Stop
TapStop(t) ==
    IF ~t.enabled \/ ~AlreadyRunning(t.status) THEN t
    ELSE [t EXCEPT !.cancel = NoProc, !.status = StatusStopped, !.errorMessage = NoMsg]

\* SqlTapManager.monitor: err := stm.cmd.Wait()
TapMonitorWait(m) ==
    /\ mon[m].kind = "tap" /\ mon[m].pc = "spawned"
    /\ mon' = [mon EXCEPT ![m].pc = "waiting", ![m].cmd = tap.cmd]
    /\ UNCHANGED <<podVars, sideVars, variant, cfgGlobal, cfgService, pf, px, tap, procs, call, portBusy, hist>>

\* SqlTapManager.monitor: the locked section after Wait() returned
TapMonitorExit(t, err) ==
    IF err /\ t.status # StatusStopped
    THEN [t EXCEPT !.status = StatusError, !.errorMessage = Msg("exited", 0)]
    ELSE IF AlreadyRunning(t.status) THEN [t EXCEPT !.status = StatusStopped] ELSE t

TapMonitorObserve(m) ==
    /\ mon[m].kind = "tap" /\ mon[m].pc = "waiting"
    /\ WaitReturns(mon[m].cmd)
    /\ tap' = TapMonitorExit(tap, WaitErr(mon[m].cmd))
    /\ mon' = [mon EXCEPT ![m] = DoneMon]
    /\ procs' = Reap(procs, mon[m].cmd)
    /\ UNCHANGED <<podVars, sideVars, variant, cfgGlobal, cfgService, pf, px, call, portBusy, hist>>

\* ------------------------------ SqlTapManager (the daemon variant)

\* NewSqlTapManager of the variant that keeps retryCount, retrying, manualStop
NewRetryTap ==
    [status |-> StatusStopped, errorMessage |-> NoMsg, cmd |-> NoProc, cancel |-> NoProc,
     retryCount |-> 0, retrying |-> FALSE, manualStop |-> FALSE]

\* SqlTapManager.Start of that variant; found: exec.LookPath finds sql-tapd
RetryTapStart(t, found, spawnOk, id) ==
    IF AlreadyRunning(t.status)
    THEN [tap |-> t, ret |-> "rejected", spawned |-> FALSE]
    ELSE IF ~found
    THEN [tap |-> [t EXCEPT !.status = StatusError, !.errorMessage = Msg("notfound", 0),
                            !.manualStop = TRUE, !.retrying = FALSE],
          ret |-> "notfound", spawned |-> FALSE]
    ELSE IF ~spawnOk
    THEN [tap |-> [t EXCEPT !.status = StatusError, !.errorMessage = Msg("spawnfail", 0),
                            !.manualStop = FALSE, !.retrying = FALSE,
                            !.cancel = NotStarted, !.cmd = NotStarted],
          ret |-> "spawnfail", spawned |-> FALSE]
    ELSE [tap |-> [t EXCEPT !.status = StatusRunning, !.errorMessage = NoMsg,
                            !.manualStop = FALSE, !.retrying = FALSE,
                            !.cancel = id, !.cmd = id, !.retryCount = 0],
          ret |-> "ok", spawned |-> TRUE]

\* SqlTapManager.Stop of that variant
RetryTapStop(t) ==
    IF ~AlreadyRunning(t.status) THEN t
    ELSE [t EXCEPT !.cancel = NoProc, !.status = StatusStopped, !.errorMessage = NoMsg,
                   !.manualStop = TRUE, !.retrying = FALSE]

\* the parent forward's Start() calls the tap's Start()
RetryTapParentStart(found, spawnOk) ==
    /\ hist.calls < MaxUserCalls
    /\ LET id == NextId
           r == RetryTapStart(tap, found, spawnOk, id)
       IN /\ r.spawned => id # NoProc
          /\ tap' = r.tap
          /\ procs' = Spawn(procs, r, id)
          /\ mon' = GoMonitor(mon, r, id, "retrytap")
          /\ hist' = [hist EXCEPT !.calls = @ + 1,
                                  !.ev = Event("Start", "parent", tap.status, r.ret)]
    /\ UNCHANGED <<podVars, sideVars, variant, cfgGlobal, cfgService, pf, px, call, portBusy>>

\* the parent forward's Stop() calls the tap's Stop()
RetryTapParentStop ==
    /\ hist.calls < MaxUserCalls
    /\ tap' = RetryTapStop(tap)
    /\ procs' = IF AlreadyRunning(tap.status) THEN Cancel(procs, tap.cancel) ELSE procs
    /\ hist' = [hist EXCEPT !.calls = @ + 1,
                            !.ev = Event("Stop", "parent", tap.status, "ok")]
    /\ UNCHANGED <<podVars, sideVars, variant, cfgGlobal, cfgService, pf, px, mon, call, portBusy>>

\* monitor of that variant: err := stm.cmd.Wait()
RetryTapMonitorWait(m) ==
    /\ mon[m].kind = "retrytap" /\ mon[m].pc = "spawned"
    /\ mon' = [mon EXCEPT ![m].pc = "waiting", ![m].cmd = tap.cmd]
    /\ UNCHANGED <<podVars, sideVars, variant, cfgGlobal, cfgService, pf, px, tap, procs, call,
                   portBusy, hist>>

\* monitor of that variant: the locked decision after Wait() has returned
RetryTapMonitorExit(t, err) ==
    IF err /\ t.status # StatusStopped
    THEN IF ~t.manualStop
         THEN [t EXCEPT !.retryCount = @ + 1, !.retrying = TRUE, !.status = StatusError,
                        !.errorMessage = Msg("retrying", t.retryCount + 1)]
         ELSE [t EXCEPT !.status = StatusError, !.retrying = FALSE,
                        !.errorMessage = Msg("exited", 0)]
    ELSE IF t.status = StatusRunning THEN [t EXCEPT !.status = StatusStopped] ELSE t

RetryTapMonitorObserve(m) ==
    /\ mon[m].kind = "retrytap" /\ mon[m].pc = "waiting"
    /\ WaitReturns(mon[m].cmd)
    /\ LET err == WaitErr(mon[m].cmd)
           retry == err /\ tap.status # StatusStopped /\ ~tap.manualStop
       IN /\ tap' = RetryTapMonitorExit(tap, err)
          /\ mon' = [mon EXCEPT ![m] = IF retry
                                         THEN [@ EXCEPT !.pc = "sleeping", !.cmd = NoProc,
                                                        !.backoff = Backoff(tap.retryCount)]
                                         ELSE DoneMon]
    /\ procs' = Reap(procs, mon[m].cmd)
    /\ UNCHANGED <<podVars, sideVars, variant, cfgGlobal, cfgService, pf, px, call, portBusy, hist>>

\* monitor of that variant: the backoff is over, stm.Start(), and the
\* locked section after a failed Start()
RetryTapMonitorRetry(m, found, spawnOk) ==
    /\ mon[m].kind = "retrytap" /\ mon[m].pc = "sleeping"
    /\ LET id == NextId
           r == RetryTapStart(tap, found, spawnOk, id)
       IN /\ r.spawned => id # NoProc
          /\ tap' = r.tap
          /\ procs' = Spawn(procs, r, id)
          /\ mon' = [GoMonitor(mon, r, id, "retrytap") EXCEPT
                        ![m] = IF r.ret = "ok" THEN DoneMon
                               ELSE [@ EXCEPT !.pc = "failed", !.backoff = 0]]
          /\ hist' = [hist EXCEPT !.ev = Event("Start", "monitor", tap.status, r.ret)]
    /\ UNCHANGED <<podVars, sideVars, variant, cfgGlobal, cfgService, pf, px, call, portBusy>>

RetryTapMonitorRetryFailed(m) ==
    /\ mon[m].kind = "retrytap" /\ mon[m].pc = "failed"
    /\ tap' = [tap EXCEPT !.status = StatusError, !.errorMessage = Msg("retryfailed", 0)]
    /\ mon' = [mon EXCEPT ![m] = DoneMon]
    /\ UNCHANGED <<podVars, sideVars, variant, cfgGlobal, cfgService, pf, px, procs, call,
                   portBusy, hist>>

\* ------------------------------------------------ ProxyForward (proxy)

\* NewProxyForward
NewProxyForward ==
    [Status |-> StatusStopped, ErrorMessage |-> NoMsg, cmd |-> NoProc, cancel |-> NoProc]

NoCall == [op |-> "none", pc |-> "none", pre |-> "none", proc |-> NoProc,
           tapDone |-> FALSE, cancelled |-> FALSE]

\* callers are anonymous: a new call is taken by the first caller that is free
FreeCaller(c) == call[c].op = "none" /\ \A d \in Callers : d < c => call[d].op # "none"

\* a call's record as the event of its return
Returned(c, ret) ==
    [op |-> c.op, by |-> "user", pre |-> c.pre, ret |-> ret,
     tapDone |-> c.tapDone, cancelled |-> c.cancelled]

\* ProxyForward.Start, the first locked section: up to the spawn, and on to
\* the settle delay ("settle") when the tap is enabled
PXStartLocked(f, exists, spawnOk, id, enabled) ==
    IF AlreadyRunning(f.Status)
    THEN [px |-> f, ret |-> "rejected", spawned |-> FALSE, next |-> "return"]
    ELSE IF ~exists
    THEN [px |-> [f EXCEPT !.Status = StatusError, !.ErrorMessage = Msg("notfound", 0)],
          ret |-> "notfound", spawned |-> FALSE, next |-> "return"]
    ELSE IF ~spawnOk
    THEN [px |-> [f EXCEPT !.Status = StatusError, !.ErrorMessage = Msg("spawnfail", 0),
                           !.cancel = NotStarted, !.cmd = NotStarted],
          ret |-> "spawnfail", spawned |-> FALSE, next |-> "return"]
    ELSE [px |-> [f EXCEPT !.Status = StatusRunning, !.ErrorMessage = NoMsg,
                           !.cancel = id, !.cmd = id],
          ret |-> "ok", spawned |-> TRUE,
          next |-> IF enabled THEN "settle" ELSE "return"]

PXStartBegin(c, exists, spawnOk) ==
    /\ variant = "proxy" /\ FreeCaller(c) /\ hist.calls < MaxUserCalls
    /\ LET id == NextId
           r == PXStartLocked(px, exists, spawnOk, id, tap.enabled)
           me == [NoCall EXCEPT !.op = "Start", !.pc = r.next, !.pre = px.Status,
                                !.proc = IF r.spawned THEN id ELSE NoProc]
       IN /\ r.spawned => id # NoProc
          /\ px' = r.px
          /\ procs' = Spawn(procs, r, id)
          /\ mon' = GoMonitor(mon, r, id, "px")
          /\ call' = [call EXCEPT ![c] = IF r.next = "return" THEN NoCall ELSE me]
          /\ hist' = IF r.next = "return"
                     THEN [hist EXCEPT !.calls = @ + 1, !.ev = Returned(me, r.ret)]
                     ELSE [hist EXCEPT !.calls = @ + 1]
    /\ UNCHANGED <<podVars, sideVars, variant, cfgGlobal, cfgService, pf, tap, portBusy>>

\* ProxyForward.Start, unlocked: the 2s settle delay is over, sqlTapManager.Start()
PXStartTap(c, spawnOk, early) ==
    /\ call[c].op = "Start" /\ call[c].pc = "settle"
    /\ LET id == NextId
           r == TapStart(tap, spawnOk, early, id)
       IN /\ r.spawned => id # NoProc
          /\ tap' = r.tap
          /\ procs' = IF r.spawned
                      THEN [procs EXCEPT ![id] = IF early = "no" THEN "alive" ELSE early]
                      ELSE procs
          /\ mon' = IF r.spawned /\ early # "no"
                    THEN [mon EXCEPT ![id] = [IdleMon EXCEPT !.pc = "waiting", !.kind = "tap",
                                                             !.cmd = id]]
                    ELSE GoMonitor(mon, r, id, "tap")
          /\ call' = [call EXCEPT ![c].pc = IF r.ret = "ok" THEN "relock" ELSE "tapfailed",
                                  ![c].tapDone = TRUE]
    /\ UNCHANGED <<podVars, sideVars, variant, cfgGlobal, cfgService, pf, px, portBusy, hist>>

\* ProxyForward.Start: "If sql-tap fails, stop the port-forward"
PXTapFailed(f) ==
    [px |-> [f EXCEPT !.Status = StatusError, !.ErrorMessage = Msg("taperr", 0)],
     cancel |-> f.cancel]

PXStartFail(c) ==
    /\ call[c].op = "Start" /\ call[c].pc = "tapfailed"
    /\ LET r == PXTapFailed(px)
       IN /\ px' = r.px
          /\ procs' = Cancel(procs, r.cancel)
          /\ hist' = [hist EXCEPT !.ev = Returned([call[c] EXCEPT !.cancelled = r.cancel # NoProc],
                                                  "taperr")]
    /\ call' = [call EXCEPT ![c] = NoCall]
    /\ UNCHANGED <<podVars, sideVars, variant, cfgGlobal, cfgService, pf, tap, mon, portBusy>>

\* ProxyForward.Start: "Re-lock for the deferred unlock", return nil
PXStartEnd(c) ==
    /\ call[c].op = "Start" /\ call[c].pc = "relock"
    /\ hist' = [hist EXCEPT !.ev = Returned(call[c], "ok")]
    /\ call' = [call EXCEPT ![c] = NoCall]
    /\ UNCHANGED <<podVars, sideVars, variant, cfgGlobal, cfgService, pf, px, tap, procs, mon, portBusy>>

\* the fields Stop() writes when it cancels, and the handle it cancels
PXStopped(f) ==
    [px |-> [f EXCEPT !.cancel = NoProc, !.Status = StatusStopped, !.ErrorMessage = NoMsg],
     cancel |-> f.cancel]

\* a Stop() that cancels the parent before it turns to the tap
CancelBeforeTapStop(f, enabled) ==
    IF f.Status # StatusRunning /\ f.Status # StatusStarting
    THEN [px |-> f, cancel |-> NoProc, next |-> "return"]
    ELSE [px |-> PXStopped(f).px, cancel |-> PXStopped(f).cancel,
          next |-> IF enabled THEN "tapstop" ELSE "return"]

\* ProxyForward.Stop, the first locked section: with the tap enabled the
\* mutex is released to stop the tap first ("tapstop")
PXStopLocked(f, enabled) ==
    IF ~AlreadyRunning(f.Status)
    THEN [px |-> f, cancel |-> NoProc, next |-> "return"]
    ELSE IF enabled
    THEN [px |-> f, cancel |-> NoProc, next |-> "tapstop"]
    ELSE [px |-> PXStopped(f).px, cancel |-> PXStopped(f).cancel, next |-> "return"]

PXStopBegin(c) ==
    /\ variant = "proxy" /\ FreeCaller(c) /\ hist.calls < MaxUserCalls
    /\ LET r == PXStopLocked(px, tap.enabled)
           me == [NoCall EXCEPT !.op = "Stop", !.pc = r.next, !.pre = px.Status,
                                !.cancelled = r.cancel # NoProc]
       IN /\ px' = r.px
          /\ procs' = Cancel(procs, r.cancel)
          /\ call' = [call EXCEPT ![c] = IF r.next = "return" THEN NoCall ELSE me]
          /\ hist' = IF r.next = "return"
                     THEN [hist EXCEPT !.calls = @ + 1, !.ev = Returned(me, "ok")]
                     ELSE [hist EXCEPT !.calls = @ + 1]
    /\ UNCHANGED <<podVars, sideVars, variant, cfgGlobal, cfgService, pf, tap, mon, portBusy>>

\* ProxyForward.Stop, unlocked: pf.sqlTapManager.Stop()
PXStopTap(c) ==
    /\ call[c].op = "Stop" /\ call[c].pc = "tapstop"
    /\ tap' = TapStop(tap)
    /\ procs' = IF tap.enabled /\ AlreadyRunning(tap.status) THEN Cancel(procs, tap.cancel)
                ELSE procs
    /\ call' = [call EXCEPT ![c].pc = "relock", ![c].tapDone = TRUE]
    /\ UNCHANGED <<podVars, sideVars, variant, cfgGlobal, cfgService, pf, px, mon, portBusy, hist>>

\* ProxyForward.Stop, locked again: cancel the subprocess, status Stopped
PXStopEnd(c) ==
    /\ call[c].op = "Stop" /\ call[c].pc = "relock"
    /\ LET r == PXStopped(px)
       IN /\ px' = r.px
          /\ procs' = Cancel(procs, r.cancel)
          /\ hist' = [hist EXCEPT !.ev = Returned([call[c] EXCEPT
                                                     !.cancelled = @ \/ r.cancel # NoProc], "ok")]
    /\ call' = [call EXCEPT ![c] = NoCall]
    /\ UNCHANGED <<podVars, sideVars, variant, cfgGlobal, cfgService, pf, tap, mon, portBusy>>

\* ProxyForward.monitor: err := pf.cmd.Wait()
PXMonitorWait(m) ==
    /\ mon[m].kind = "px" /\ mon[m].pc = "spawned"
    /\ mon' = [mon EXCEPT ![m].pc = "waiting", ![m].cmd = px.cmd]
    /\ UNCHANGED <<podVars, sideVars, variant, cfgGlobal, cfgService, pf, px, tap, procs, call, portBusy, hist>>

\* ProxyForward.monitor: the locked section after Wait() returned
PXMonitorExit(f, err) ==
    IF err /\ f.Status # StatusStopped
    THEN [f EXCEPT !.Status = StatusError, !.ErrorMessage = Msg("exited", 0)]
    ELSE IF f.Status = StatusRunning THEN [f EXCEPT !.Status = StatusStopped] ELSE f

PXMonitorObserve(m) ==
    /\ mon[m].kind = "px" /\ mon[m].pc = "waiting"
    /\ WaitReturns(mon[m].cmd)
    /\ px' = PXMonitorExit(px, WaitErr(mon[m].cmd))
    /\ mon' = [mon EXCEPT ![m] = DoneMon]
    /\ procs' = Reap(procs, mon[m].cmd)
    /\ UNCHANGED <<podVars, sideVars, variant, cfgGlobal, cfgService, pf, tap, call, portBusy, hist>>

\* ------------------------------------------------------ ProxyPodManager

\* the proxy services of the configuration, by position in Config.ProxyServices
Services == 1..MaxServices

\* the names a proxy service can carry; the configuration is not checked for
\* services that share a name
ServiceNames == 1..MaxServices

\* a selection lists services in configuration order
SortedSeq(T) ==
    CHOOSE q \in [1..Cardinality(T) -> T] : \A i, j \in 1..Cardinality(T) : i < j => q[i] < q[j]

Selections == {SortedSeq(T) : T \in SUBSET Services}

\* make(map[string]int)
NoPorts == [n \in {} |-> 0]

\* m[k] = v
Put(m, k, v) == [x \in DOMAIN m \cup {k} |-> IF x = k THEN v ELSE m[x]]

\* NewProxyPodManager
NewProxyPodManager ==
    [status |-> ProxyPodStatusNotCreated, currentServices |-> <<>>, podPorts |-> NoPorts,
     errorMessage |-> ""]

\* a reset that forgets to empty the port map
ResetKeepsPorts(m) ==
    [m EXCEPT !.status = ProxyPodStatusNotCreated, !.currentServices = <<>>,
              !.errorMessage = ""]

\* the manager as DeletePod and the empty selection leave it
PodReset(m) ==
    [m EXCEPT !.status = ProxyPodStatusNotCreated, !.currentServices = <<>>,
              !.podPorts = NoPorts, !.errorMessage = ""]

\* CreatePodWithServices: pm.podPorts[svc.Name] = 10000 + i, in selection order
RECURSIVE AssignPorts(_, _, _, _)
AssignPorts(names, sel, i, ports) ==
    IF i > Len(sel) THEN ports
    ELSE AssignPorts(names, sel, i + 1, Put(ports, names[sel[i]], BasePodPort + (i - 1)))

\* a port map that is filled without being emptied first
MergedPodPorts(m, names, sel) == AssignPorts(names, sel, 1, m.podPorts)

\* CreatePodWithServices: the port map is made anew and filled
NewPodPorts(m, names, sel) == AssignPorts(names, sel, 1, NoPorts)

\* deletePodUnsafe on a cluster where the pod exists or not. The cluster
\* decides: "fail" the delete command errs, "gone" the pod has disappeared
\* within the wait, "stuck" the pod outlives the wait and the final force
\* delete. cmds counts the delete commands issued.
DeleteOutcomes(exists) == IF exists THEN {"fail", "gone", "stuck"} ELSE {"fail", "gone"}

deletePodUnsafe(d, exists) ==
    [err |-> d = "fail",
     exists |-> IF d = "gone" THEN FALSE ELSE exists,
     cmds |-> IF d = "stuck" THEN 2 ELSE 1]

\* a creation that gives up when the name is still taken
GiveUpOnAlreadyExists(m, exists, names, sel, d, run, d2, run2, ready) ==
    LET del == deletePodUnsafe(d, exists)
        ports == NewPodPorts(m, names, sel)
        failed(msg, ex) ==
            [pm |-> [m EXCEPT !.status = ProxyPodStatusError, !.podPorts = ports,
                              !.errorMessage = msg],
             exists |-> ex, ret |-> "err", deletes |-> del.cmds, creates |-> 1]
    IN IF Len(sel) = 0
       THEN [pm |-> PodReset(m), exists |-> del.exists, ret |-> "ok",
             deletes |-> del.cmds, creates |-> 0]
       ELSE IF del.exists THEN failed("create", TRUE)
       ELSE IF ~run THEN failed("create", FALSE)
       ELSE IF ~ready THEN failed("notready", TRUE)
       ELSE [pm |-> [m EXCEPT !.status = ProxyPodStatusReady, !.podPorts = ports,
                              !.currentServices = sel, !.errorMessage = ""],
             exists |-> TRUE, ret |-> "ok", deletes |-> del.cmds, creates |-> 1]

\* CreatePodWithServices, one call under the manager's mutex. The cluster
\* decides d (first delete), run (kubectl run on a free name), d2 and run2
\* (delete and kubectl run of the AlreadyExists retry), ready (the pod turns
\* ready within the wait).
CreatePodWithServices(m, exists, names, sel, d, run, d2, run2, ready) ==
    LET del == deletePodUnsafe(d, exists)
        ports == NewPodPorts(m, names, sel)
        del2 == deletePodUnsafe(d2, TRUE)
        failed(msg, ex, dels, runs) ==
            [pm |-> [m EXCEPT !.status = ProxyPodStatusError, !.podPorts = ports,
                              !.errorMessage = msg],
             exists |-> ex, ret |-> "err", deletes |-> dels, creates |-> runs]
        created(dels, runs) ==
            IF ready
            THEN [pm |-> [m EXCEPT !.status = ProxyPodStatusReady, !.podPorts = ports,
                                   !.currentServices = sel, !.errorMessage = ""],
                  exists |-> TRUE, ret |-> "ok", deletes |-> dels, creates |-> runs]
            ELSE failed("notready", TRUE, dels, runs)
    IN IF Len(sel) = 0
       THEN [pm |-> PodReset(m), exists |-> del.exists, ret |-> "ok",
             deletes |-> del.cmds, creates |-> 0]
       ELSE IF ~del.exists
       THEN IF run THEN created(del.cmds, 1) ELSE failed("create", FALSE, del.cmds, 1)
       ELSE IF del2.exists
       THEN failed("retry", TRUE, del.cmds + del2.cmds, 2)
       ELSE IF run2 THEN created(del.cmds + del2.cmds, 2)
       ELSE failed("retry", FALSE, del.cmds + del2.cmds, 2)

\* the answers of the cluster that one CreatePodWithServices(sel) consults:
\* an answer the call never asks for is left at a fixed value
ClusterAnswers(exists, sel) ==
    {c \in [d : DeleteOutcomes(exists), run : BOOLEAN, d2 : DeleteOutcomes(TRUE),
            run2 : BOOLEAN, ready : BOOLEAN] :
        LET retried == Len(sel) > 0 /\ deletePodUnsafe(c.d, exists).exists
            ran == IF retried THEN ~deletePodUnsafe(c.d2, TRUE).exists /\ c.run2
                   ELSE Len(sel) > 0 /\ c.run
        IN /\ retried \/ (c.d2 = "gone" /\ c.run2)
           /\ (retried \/ Len(sel) = 0) => c.run
           /\ (retried /\ deletePodUnsafe(c.d2, TRUE).exists) => c.run2
           /\ ~ran => c.ready}

\* every answer the cluster can give to one call
Answers == [d : {"fail", "gone", "stuck"}, run : BOOLEAN, d2 : {"fail", "gone", "stuck"},
            run2 : BOOLEAN, ready : BOOLEAN]

\* DeletePod
DeletePod(m, exists, d) ==
    LET del == deletePodUnsafe(d, exists)
    IN IF del.err
       THEN [pm |-> m, exists |-> del.exists, ret |-> "err", deletes |-> del.cmds]
       ELSE [pm |-> PodReset(m), exists |-> del.exists, ret |-> "ok", deletes |-> del.cmds]

\* a lookup that answers with the first relay port, whatever the map holds
FirstPodPort(m, name) == [port |-> BasePodPort, exists |-> name \in DOMAIN m.podPorts]

\* GetPodPort
GetPodPort(m, name) ==
    IF name \in DOMAIN m.podPorts
    THEN [port |-> m.podPorts[name], exists |-> TRUE]
    ELSE [port |-> 0, exists |-> FALSE]

\* ------------------------------------- proxy forwards behind the pod

Range(f) == {f[x] : x \in DOMAIN f}

\* NewProxyForward for configured service s (sql-tap not configured)
NewProxyForwardFor(s) == [svc |-> s] @@ NewProxyForward

\* make(map[string]*ProxyForward)
NoForwards == [n \in {} |-> 0]

NoCmdline == [by |-> 0, port |-> 0]

NoApply == [pc |-> "idle", sel |-> <<>>, i |-> 0]

\* the last call made on the manager by CreatePodCall or DeletePodCall (none
\* once ApplyProxySelection has rebuilt the pod since), the last Start()/Stop()
\* of a proxy forward, the last ApplyProxySelection
NoPodCall == [op |-> "none", sel |-> <<>>, ret |-> "none", deletes |-> 0, creates |-> 0,
              d |-> "none", prev |-> <<>>]

NoFwdCall == [op |-> "none", obj |-> 0, pre |-> "none", had |-> FALSE, ret |-> "none"]

InitPlog == [calls |-> 0, pod |-> NoPodCall, fwd |-> NoFwdCall,
             app |-> [ret |-> "none", started |-> 0, n |-> 0]]

\* ProxyForward.Start of forward o among the forwards fs: the relay port is
\* looked up in the manager, then the locked section runs
StartForward(fs, o, spawnOk, id) ==
    LET look == GetPodPort(pm, proxyServices[fs[o].svc])
        r == PXStartLocked(fs[o], look.exists, spawnOk, id, FALSE)
    IN [fwds |-> [fs EXCEPT ![o] = r.px], ret |-> r.ret, spawned |-> r.spawned,
        line |-> [by |-> o, port |-> look.port],
        ev |-> [op |-> "Start", obj |-> o, pre |-> fs[o].Status, had |-> look.exists,
                ret |-> r.ret]]

\* ApplyProxySelection, up to the rebuild: Stop() every forward of the map,
\* then start with an empty map
ApplyBegin(sel) ==
    /\ apply.pc = "idle" /\ plog.calls < MaxPodCalls
    /\ LET mapped == Range(fwdMap)
           stop(o) == PXStopLocked(fwds[o], FALSE)
       IN /\ fwds' = [o \in DOMAIN fwds |-> IF o \in mapped THEN stop(o).px ELSE fwds[o]]
          /\ procs' = [p \in ProcIds |->
                         IF \E o \in mapped : stop(o).cancel = p
                         THEN Cancel(procs, p)[p] ELSE procs[p]]
    /\ fwdMap' = NoForwards
    /\ apply' = [pc |-> "rebuild", sel |-> sel, i |-> 1]
    /\ plog' = [plog EXCEPT !.calls = @ + 1, !.app = [ret |-> "running", started |-> 0, n |-> Len(sel)]]
    /\ UNCHANGED <<proxyServices, pm, podExists, cmdline>>
    /\ UNCHANGED <<sideVars, variant, cfgGlobal, cfgService, pf, px, tap, mon, call, portBusy, hist>>

\* ApplyProxySelection: CreatePodWithServices(selectedServices); an error
\* ends the call
ApplyRebuild(c) ==
    /\ apply.pc = "rebuild"
    /\ c \in ClusterAnswers(podExists, apply.sel)
    /\ LET r == CreatePodWithServices(pm, podExists, proxyServices, apply.sel,
                                      c.d, c.run, c.d2, c.run2, c.ready)
           over == r.ret = "err" \/ Len(apply.sel) = 0
       IN /\ pm' = r.pm
          /\ podExists' = r.exists
          /\ apply' = IF over THEN NoApply ELSE [apply EXCEPT !.pc = "start"]
          /\ plog' = [plog EXCEPT
                        !.pod = NoPodCall,
                        !.app.ret = IF over THEN r.ret ELSE @]
    /\ UNCHANGED <<proxyServices, fwds, fwdMap, cmdline>>
    /\ UNCHANGED <<sideVars, variant, cfgGlobal, cfgService, pf, px, tap, procs, mon, call, portBusy,
                   hist>>

\* ApplyProxySelection, one turn of the loop: NewProxyForward, Start() (an
\* error is only logged), m.proxyForwards[pxSvc.Name] = pxf; after the last
\* turn the call returns nil
ApplyStartNext(spawnOk) ==
    /\ apply.pc = "start"
    /\ LET s == apply.sel[apply.i]
           o == Len(fwds) + 1
           id == NextId
           r == StartForward(Append(fwds, NewProxyForwardFor(s)), o, spawnOk, id)
           last == apply.i = Len(apply.sel)
       IN /\ r.spawned => id # NoProc
          /\ fwds' = r.fwds
          /\ procs' = Spawn(procs, r, id)
          /\ mon' = GoMonitor(mon, r, id, "fwd")
          /\ cmdline' = IF r.spawned THEN [cmdline EXCEPT ![id] = r.line] ELSE cmdline
          /\ fwdMap' = Put(fwdMap, proxyServices[s], o)
          /\ apply' = IF last THEN NoApply ELSE [apply EXCEPT !.i = @ + 1]
          /\ plog' = [plog EXCEPT !.fwd = r.ev, !.app.started = @ + 1,
                                  !.app.ret = IF last THEN "ok" ELSE @]
    /\ UNCHANGED <<proxyServices, pm, podExists>>
    /\ UNCHANGED <<sideVars, variant, cfgGlobal, cfgService, pf, px, tap, call, portBusy, hist>>

\* ProxyForward.Start on the forward the map holds for name n
FwdStart(n, spawnOk) ==
    /\ apply.pc = "idle" /\ plog.calls < MaxPodCalls
    /\ n \in DOMAIN fwdMap
    /\ LET id == NextId
           r == StartForward(fwds, fwdMap[n], spawnOk, id)
       IN /\ r.spawned => id # NoProc
          /\ fwds' = r.fwds
          /\ procs' = Spawn(procs, r, id)
          /\ mon' = GoMonitor(mon, r, id, "fwd")
          /\ cmdline' = IF r.spawned THEN [cmdline EXCEPT ![id] = r.line] ELSE cmdline
          /\ plog' = [plog EXCEPT !.calls = @ + 1, !.fwd = r.ev]
    /\ UNCHANGED <<proxyServices, pm, podExists, fwdMap, apply>>
    /\ UNCHANGED <<sideVars, variant, cfgGlobal, cfgService, pf, px, tap, call, portBusy, hist>>

\* ProxyForward.Stop on the forward the map holds for name n
FwdStop(n) ==
    /\ apply.pc = "idle" /\ plog.calls < MaxPodCalls
    /\ n \in DOMAIN fwdMap
    /\ LET o == fwdMap[n]
           r == PXStopLocked(fwds[o], FALSE)
       IN /\ fwds' = [fwds EXCEPT ![o] = r.px]
          /\ procs' = Cancel(procs, r.cancel)
          /\ plog' = [plog EXCEPT !.calls = @ + 1,
                                  !.fwd = [op |-> "Stop", obj |-> o, pre |-> fwds[o].Status,
                                           had |-> FALSE, ret |-> "ok"]]
    /\ UNCHANGED <<proxyServices, pm, podExists, fwdMap, apply, cmdline>>
    /\ UNCHANGED <<sideVars, variant, cfgGlobal, cfgService, pf, px, tap, mon, call, portBusy, hist>>

\* a caller of CreatePodWithServices that leaves the forwards alone
CreatePodCall(sel, c) ==
    /\ apply.pc = "idle" /\ plog.calls < MaxPodCalls
    /\ c \in ClusterAnswers(podExists, sel)
    /\ LET r == CreatePodWithServices(pm, podExists, proxyServices, sel,
                                      c.d, c.run, c.d2, c.run2, c.ready)
       IN /\ pm' = r.pm
          /\ podExists' = r.exists
          /\ plog' = [plog EXCEPT
                        !.calls = @ + 1,
                        !.pod = [op |-> "CreatePodWithServices", sel |-> sel,
                                 ret |-> r.ret, deletes |-> r.deletes,
                                 creates |-> r.creates, d |-> c.d,
                                 prev |-> pm.currentServices]]
    /\ UNCHANGED <<proxyServices, fwds, fwdMap, apply, cmdline>>
    /\ UNCHANGED <<sideVars, variant, cfgGlobal, cfgService, pf, px, tap, procs, mon, call, portBusy,
                   hist>>

\* what one "kubectl get pod -o json" of the readiness wait can answer: the
\* command fails with NotFound or otherwise, its output does not parse, or it
\* reports a phase and a Ready condition
Poll(cmd, phase, ready) == [cmd |-> cmd, phase |-> phase, ready |-> ready]

PollOutcomes ==
    {Poll("notfound", "", FALSE), Poll("fail", "", FALSE), Poll("badjson", "", FALSE)}
    \cup {Poll("ok", ph, r) : ph \in {"Pending", "Running"}, r \in BOOLEAN}

\* a readiness check that looks at the phase alone
ReadyWhenRunning(p) ==
    IF p.cmd = "notfound" THEN [exists |-> FALSE, ready |-> FALSE, err |-> FALSE]
    ELSE IF p.cmd = "fail" THEN [exists |-> FALSE, ready |-> FALSE, err |-> TRUE]
    ELSE IF p.cmd = "badjson" THEN [exists |-> TRUE, ready |-> FALSE, err |-> TRUE]
    ELSE [exists |-> TRUE, ready |-> p.phase = "Running", err |-> FALSE]

\* checkPodExists
checkPodExists(p) ==
    IF p.cmd = "notfound" THEN [exists |-> FALSE, ready |-> FALSE, err |-> FALSE]
    ELSE IF p.cmd = "fail" THEN [exists |-> FALSE, ready |-> FALSE, err |-> TRUE]
    ELSE IF p.cmd = "badjson" THEN [exists |-> TRUE, ready |-> FALSE, err |-> TRUE]
    ELSE IF p.phase # "Running" THEN [exists |-> TRUE, ready |-> FALSE, err |-> FALSE]
    ELSE [exists |-> TRUE, ready |-> p.ready, err |-> FALSE]

\* waitForPodReady over the polls that begin before the deadline: the
\* returned error ("none", "poll", "timeout") and the polls made
RECURSIVE waitForPodReady(_, _)
waitForPodReady(polls, i) ==
    IF i > Len(polls) THEN [err |-> "timeout", made |-> Len(polls)]
    ELSE LET c == checkPodExists(polls[i])
         IN IF c.err THEN [err |-> "poll", made |-> i]
            ELSE IF c.exists /\ c.ready THEN [err |-> "none", made |-> i]
            ELSE waitForPodReady(polls, i + 1)

\* the runs of polls one wait can make: a run ends with the poll that makes
\* the wait return, or with the deadline
PollRuns ==
    {q \in UNION {[1..n -> PollOutcomes] : n \in 0..MaxPolls} :
        waitForPodReady(q, 1).made = Len(q)}

\* a caller of CreatePodWithServices, with the polls of its readiness wait
CreatePodPolled(sel, c, polls) ==
    /\ apply.pc = "idle" /\ plog.calls < MaxPodCalls
    /\ c \in ClusterAnswers(podExists, sel) /\ c.ready
    /\ LET r == CreatePodWithServices(pm, podExists, proxyServices, sel,
                                      c.d, c.run, c.d2, c.run2,
                                      waitForPodReady(polls, 1).err = "none")
           waited == Len(sel) > 0 /\ (r.ret = "ok" \/ r.pm.errorMessage = "notready")
       IN /\ waited \/ polls = <<>>
          /\ pm' = r.pm
          /\ podExists' = r.exists
          /\ plog' = [plog EXCEPT
                        !.calls = @ + 1,
                        !.pod = [op |-> "CreatePodWithServices", sel |-> sel,
                                 ret |-> r.ret, deletes |-> r.deletes,
                                 creates |-> r.creates, d |-> c.d,
                                 prev |-> pm.currentServices]]
          /\ calc' = [op |-> "wait", waited |-> waited, polls |-> polls,
                      stale |-> deletePodUnsafe(c.d, podExists).exists]
    /\ UNCHANGED <<proxyServices, fwds, fwdMap, apply, cmdline>>
    /\ UNCHANGED <<tuiVars, bgVars, variant, cfgGlobal, cfgService, pf, px, tap, procs, mon,
                   call, portBusy, hist>>

\* a caller of DeletePod
DeletePodCall(d) ==
    /\ apply.pc = "idle" /\ plog.calls < MaxPodCalls
    /\ d \in DeleteOutcomes(podExists)
    /\ LET r == DeletePod(pm, podExists, d)
       IN /\ pm' = r.pm
          /\ podExists' = r.exists
          /\ plog' = [plog EXCEPT !.calls = @ + 1,
                                  !.pod = [op |-> "DeletePod", sel |-> <<>>, ret |-> r.ret,
                                           deletes |-> r.deletes, creates |-> 0, d |-> d,
                                           prev |-> pm.currentServices]]
    /\ UNCHANGED <<proxyServices, fwds, fwdMap, apply, cmdline>>
    /\ UNCHANGED <<sideVars, variant, cfgGlobal, cfgService, pf, px, tap, procs, mon, call, portBusy,
                   hist>>

\* ProxyForward.monitor of a forward behind the pod: err := pf.cmd.Wait()
FwdMonitorWait(m) ==
    /\ mon[m].kind = "fwd" /\ mon[m].pc = "spawned"
    /\ mon' = [mon EXCEPT ![m].pc = "waiting", ![m].cmd = fwds[cmdline[m].by].cmd]
    /\ UNCHANGED <<podVars, sideVars, variant, cfgGlobal, cfgService, pf, px, tap, procs, call,
                   portBusy, hist>>

\* ProxyForward.monitor of a forward behind the pod: the locked section
FwdMonitorObserve(m) ==
    /\ mon[m].kind = "fwd" /\ mon[m].pc = "waiting"
    /\ WaitReturns(mon[m].cmd)
    /\ fwds' = [fwds EXCEPT ![cmdline[m].by] = PXMonitorExit(@, WaitErr(mon[m].cmd))]
    /\ mon' = [mon EXCEPT ![m] = DoneMon]
    /\ procs' = Reap(procs, mon[m].cmd)
    /\ UNCHANGED <<proxyServices, pm, podExists, fwdMap, apply, cmdline, plog>>
    /\ UNCHANGED <<sideVars, variant, cfgGlobal, cfgService, pf, px, tap, call, portBusy, hist>>

\* no GetStatus() poll issued yet; during: the poll was issued while a
\* CreatePodWithServices call was in progress; got: the status it returned
NoPoll == [pc |-> "none", during |-> FALSE, got |-> "none"]

\* the manager's mutex is free
FreeMu == [held |-> FALSE, sel |-> <<>>, poll |-> NoPoll]

\* CreatePodWithServices(sel) in its own goroutine: pm.mu.Lock(), status
\* Creating, error text cleared; the kubectl commands follow with the mutex held
CreateLock(sel) ==
    /\ apply.pc = "idle" /\ plog.calls < MaxPodCalls
    /\ ~pmu.held
    /\ pm' = [pm EXCEPT !.status = ProxyPodStatusCreating, !.errorMessage = ""]
    /\ pmu' = [pmu EXCEPT !.held = TRUE, !.sel = sel]
    /\ plog' = [plog EXCEPT !.calls = @ + 1]
    /\ UNCHANGED <<proxyServices, podExists, fwds, fwdMap, apply, cmdline>>
    /\ UNCHANGED <<switched, bgVars, pureVars, variant, cfgGlobal, cfgService, pf, px, tap, procs, mon, call,
                   portBusy, hist>>

\* CreatePodWithServices: the rest of the call, then the deferred Unlock
CreateFinish(c) ==
    /\ pmu.held
    /\ c \in ClusterAnswers(podExists, pmu.sel)
    /\ LET r == CreatePodWithServices(pm, podExists, proxyServices, pmu.sel,
                                      c.d, c.run, c.d2, c.run2, c.ready)
       IN /\ pm' = r.pm
          /\ podExists' = r.exists
          /\ plog' = [plog EXCEPT
                        !.pod = [op |-> "CreatePodWithServices", sel |-> pmu.sel,
                                 ret |-> r.ret, deletes |-> r.deletes,
                                 creates |-> r.creates, d |-> c.d,
                                 prev |-> pm.currentServices]]
    /\ pmu' = [pmu EXCEPT !.held = FALSE, !.sel = <<>>]
    /\ UNCHANGED <<proxyServices, fwds, fwdMap, apply, cmdline>>
    /\ UNCHANGED <<switched, bgVars, pureVars, variant, cfgGlobal, cfgService, pf, px, tap, procs, mon, call,
                   portBusy, hist>>

\* the view's tick calls pm.GetStatus(): the call is at pm.mu.Lock()
GetStatusCall ==
    /\ pmu.poll.pc # "waiting"
    /\ pmu' = [pmu EXCEPT !.poll = [pc |-> "waiting", during |-> pmu.held, got |-> "none"]]
    /\ UNCHANGED <<podVars, switched, bgVars, pureVars, variant, cfgGlobal, cfgService, pf, px, tap, procs,
                   mon, call, portBusy, hist>>

\* GetStatus() has the mutex and returns pm.status
GetStatusReturn ==
    /\ pmu.poll.pc = "waiting" /\ ~pmu.held
    /\ pmu' = [pmu EXCEPT !.poll.pc = "returned", !.poll.got = pm.status]
    /\ UNCHANGED <<podVars, switched, bgVars, pureVars, variant, cfgGlobal, cfgService, pf, px, tap, procs,
                   mon, call, portBusy, hist>>

\* the state of the pod manager and its forwards after construction
PodInit(names, exists) ==
    /\ proxyServices = names
    /\ pm = NewProxyPodManager
    /\ podExists = exists
    /\ fwds = <<>>
    /\ fwdMap = NoForwards
    /\ apply = NoApply
    /\ cmdline = [p \in ProcIds |-> NoCmdline]
    /\ plog = InitPlog

\* ------------------------------------------------------ background mode

Instances == 1..MaxInstances

NoPid == 0

\* a background-mode process: where runBackgroundMode stands, its one
\* default direct forward, the forward's current subprocess and monitor, the
\* signal buffered in sigChan, the subprocesses spawned so far, how it exited;
\* proxy: it was launched with --default-proxy too; pod: the status of its
\* ProxyPodManager; made: the pod it created is in the cluster; del: the
\* cluster's answer to the DeletePod of its cleanup; px, pxproc: its one
\* default proxy forward and that forward's subprocess
OffInst ==
    [pc |-> "off", pf |-> NewPortForward(InfiniteRetries, FALSE), proc |-> "none",
     mon |-> "none", sig |-> FALSE, spawns |-> 0, how |-> "none",
     proxy |-> FALSE, pod |-> ProxyPodStatusNotCreated, made |-> FALSE, del |-> "none",
     px |-> NewProxyForward, pxproc |-> "none"]

\* isProcessRunning(pid): signal 0 reaches the process
isProcessRunning(pid) == pid \in Instances /\ inst[pid].pc \notin {"off", "exited"}

\* the local port of the forward is held by the subprocess of another instance
PortHeldByOther(i) == \E j \in Instances : j # i /\ inst[j].proc = "alive"

\* os.Exit, or the return of runBackgroundMode: the goroutines end with the
\* process, a kubectl subprocess that is alive stays alive
Exited(r, how) == [r EXCEPT !.pc = "exited", !.mon = "none", !.how = how]

\* runBackgroundMode up to signal.Notify: the PID file check, then
\* NewBackgroundManager; the process was launched with --default, and with
\* --default-proxy or without
BgLaunch(i, startDefaultProxy) ==
    /\ inst[i].pc = "off"
    /\ IF pidFile # NoPid /\ isProcessRunning(pidFile)
       THEN /\ inst' = [inst EXCEPT ![i] = Exited(@, "refused")]
            /\ pidFile' = pidFile
       ELSE /\ inst' = [inst EXCEPT ![i].pc = "checked",
                                    ![i].proxy = startDefaultProxy,
                                    ![i].pf = NewPortForward(
                                                 GetMaxRetries(Nil, LoadConfigMaxRetries(0)),
                                                 PortHeldByOther(i))]
            /\ pidFile' = NoPid
    /\ UNCHANGED <<supVars, podVars, tuiVars, pureVars>>

\* what a Start() outcome r does to the subprocess and the monitor of instance i
BgStarted(rec, r) ==
    [rec EXCEPT !.pf = r.pf,
                !.proc = IF r.spawned THEN "alive" ELSE @,
                !.mon = IF r.spawned THEN "waiting" ELSE "none",
                !.spawns = IF r.spawned THEN @ + 1 ELSE @]

\* StartDefaultServices: Start() of the default forward, an error is a warning
BgStartDefaults(i, spawnOk) ==
    /\ inst[i].pc = "checked"
    /\ LET r == PFStart(inst[i].pf, PortHeldByOther(i), spawnOk, inst[i].spawns + 1)
       IN inst' = [inst EXCEPT ![i] = [BgStarted(@, r) EXCEPT
                                          !.pc = IF inst[i].proxy THEN "proxy" ELSE "waiting"]]
    /\ UNCHANGED <<supVars, podVars, tuiVars, pureVars, pidFile>>

\* the pod that instance i created is replaced or removed by another
\* process's kubectl
Unmade(recs, i, changed) ==
    [j \in Instances |-> IF j = i \/ ~changed THEN recs[j] ELSE [recs[j] EXCEPT !.made = FALSE]]

\* StartDefaultProxyServices: CreatePodWithServices for the default proxy
\* service; on an error runBackgroundMode calls os.Exit(1) and the deferred
\* cleanup is skipped; on success the proxy forward is built and started, an
\* error of Start() is a warning
BgStartDefaultProxy(i, c, spawnOk) ==
    /\ inst[i].pc = "proxy"
    /\ c \in ClusterAnswers(podExists, <<1>>)
    /\ LET r == CreatePodWithServices(NewProxyPodManager, podExists, proxyServices, <<1>>,
                                      c.d, c.run, c.d2, c.run2, c.ready)
           ran == IF ~deletePodUnsafe(c.d, podExists).exists THEN c.run
                  ELSE ~deletePodUnsafe(c.d2, TRUE).exists /\ c.run2
           look == GetPodPort(r.pm, proxyServices[1])
           s == PXStartLocked(NewProxyForward, look.exists, spawnOk, 1, FALSE)
           rec == [inst[i] EXCEPT !.pod = r.pm.status, !.made = ran]
       IN /\ inst' = Unmade([inst EXCEPT ![i] =
                                IF r.ret = "err" THEN Exited(rec, "podfail")
                                ELSE [rec EXCEPT !.pc = "waiting", !.px = s.px,
                                                 !.pxproc = IF s.spawned THEN "alive" ELSE "none"]],
                            i, ran \/ ~r.exists)
          /\ podExists' = r.exists
    /\ UNCHANGED <<supVars, proxyServices, pm, fwds, fwdMap, apply, cmdline, plog, tuiVars, pureVars, pidFile>>

\* WaitForServicesToStart counts a forward that is Running or in Error
BgReady(status) == status = StatusRunning \/ status = StatusError

\* every forward that WaitForServicesToStart monitors is counted
BgAllReady(rec) == BgReady(rec.pf.Status) /\ (rec.proxy => BgReady(rec.px.Status))

\* WaitForServicesToStart returns nil, writePidFile
BgWaitDone(i) ==
    /\ inst[i].pc = "waiting" /\ BgAllReady(inst[i])
    /\ inst' = [inst EXCEPT ![i].pc = "running"]
    /\ pidFile' = i
    /\ UNCHANGED <<supVars, podVars, tuiVars, pureVars>>

\* WaitForServicesToStart times out: os.Exit(1), the deferred cleanup is skipped
BgWaitTimeout(i) ==
    /\ inst[i].pc = "waiting" /\ ~BgAllReady(inst[i])
    /\ inst' = [inst EXCEPT ![i] = Exited(@, "timeout")]
    /\ UNCHANGED <<supVars, podVars, tuiVars, pureVars, pidFile>>

\* SIGINT or SIGTERM is delivered and waits in sigChan
BgSignal(i) ==
    /\ inst[i].pc \in {"checked", "proxy", "waiting", "running"} /\ ~inst[i].sig
    /\ inst' = [inst EXCEPT ![i].sig = TRUE]
    /\ UNCHANGED <<supVars, podVars, tuiVars, pureVars, pidFile>>

\* <-sigChan returns; cleanup: StopAll stops the direct forward if
\* pf.IsRunning(), calls Stop() on the proxy forward of the map and DeletePod
\* on the manager, whose error it drops
BgStopAll(i, d) ==
    /\ inst[i].pc = "running" /\ inst[i].sig
    /\ d \in DeleteOutcomes(podExists)
    /\ LET stop == PXStopLocked(inst[i].px, FALSE)
           del == DeletePod([NewProxyPodManager EXCEPT !.status = inst[i].pod], podExists, d)
       IN /\ inst' = Unmade(
                       [inst EXCEPT ![i].pc = "cleanup",
                            ![i].pf = IF AlreadyRunning(@.Status) THEN PFStop(@) ELSE @,
                            ![i].proc = IF AlreadyRunning(inst[i].pf.Status) /\ @ = "alive"
                                           /\ inst[i].pf.cancel = inst[i].spawns
                                        THEN "killed" ELSE @,
                            ![i].px = stop.px,
                            ![i].pxproc = IF stop.cancel # NoProc /\ @ = "alive"
                                          THEN "killed" ELSE @,
                            ![i].pod = del.pm.status,
                            ![i].made = @ /\ del.exists,
                            ![i].del = d],
                       i, ~del.exists)
          /\ podExists' = del.exists
    /\ UNCHANGED <<supVars, proxyServices, pm, fwds, fwdMap, apply, cmdline, plog, tuiVars, pureVars, pidFile>>

\* cleanup: removePidFile, then the process ends
BgExit(i) ==
    /\ inst[i].pc = "cleanup"
    /\ inst' = [inst EXCEPT ![i] = Exited(@, "signal")]
    /\ pidFile' = NoPid
    /\ UNCHANGED <<supVars, podVars, tuiVars, pureVars>>

\* the process is killed outright (SIGKILL, power loss): nothing is cleaned up
BgCrash(i) ==
    /\ inst[i].pc = "running"
    /\ inst' = [inst EXCEPT ![i] = Exited(@, "crash")]
    /\ UNCHANGED <<supVars, podVars, tuiVars, pureVars, pidFile>>

\* the kubectl subprocess of instance i exits on its own
BgProcExit(i, clean) ==
    /\ inst[i].proc = "alive"
    /\ inst' = [inst EXCEPT ![i].proc = IF clean THEN "exit0" ELSE "exiterr"]
    /\ UNCHANGED <<supVars, podVars, tuiVars, pureVars, pidFile>>

\* PortForward.monitor of instance i: Wait() has returned, the locked decision
BgMonitorObserve(i) ==
    /\ isProcessRunning(i) /\ inst[i].mon = "waiting"
    /\ inst[i].proc \in {"exit0", "exiterr", "killed"}
    /\ LET err == inst[i].proc # "exit0"
       IN inst' = [inst EXCEPT ![i].pf = PFMonitorExit(@, err),
                               ![i].mon = IF PFMonitorSleeps(inst[i].pf, err)
                                          THEN "sleeping" ELSE "none",
                               ![i].proc = "none"]
    /\ UNCHANGED <<supVars, podVars, tuiVars, pureVars, pidFile>>

\* PortForward.monitor of instance i: the backoff is over, Start(), and the
\* locked section that follows a failed Start()
BgMonitorRetry(i, spawnOk) ==
    /\ isProcessRunning(i) /\ inst[i].mon = "sleeping" /\ inst[i].spawns < MaxProcs
    /\ LET r == PFStart(inst[i].pf, PortHeldByOther(i), spawnOk, inst[i].spawns + 1)
           done == IF r.ret = "ok" THEN r ELSE [r EXCEPT !.pf = PFRetryFailed(r.pf)]
       IN inst' = [inst EXCEPT ![i] = BgStarted(@, done)]
    /\ UNCHANGED <<supVars, podVars, tuiVars, pureVars, pidFile>>

\* the kubectl subprocess of the proxy forward of instance i exits on its own
BgPxProcExit(i, clean) ==
    /\ inst[i].pxproc = "alive"
    /\ inst' = [inst EXCEPT ![i].pxproc = IF clean THEN "exit0" ELSE "exiterr"]
    /\ UNCHANGED <<supVars, podVars, tuiVars, pureVars, pidFile>>

\* ProxyForward.monitor of instance i: Wait() has returned, the locked section
BgPxMonitorObserve(i) ==
    /\ isProcessRunning(i) /\ inst[i].pxproc \in {"exit0", "exiterr", "killed"}
    /\ inst' = [inst EXCEPT ![i].px = PXMonitorExit(@, inst[i].pxproc # "exit0"),
                            ![i].pxproc = "none"]
    /\ UNCHANGED <<supVars, podVars, tuiVars, pureVars, pidFile>>

\* no background process launched yet, no PID file
BgInit ==
    /\ inst = [i \in Instances |-> OffInst]
    /\ pidFile = NoPid

\* ------------------------------------------------------ pure functions

\* monitor, lines 180-181: the delay for the counter's value, then retryCount++;
\* was: the value the delay was computed for
BackoffStep ==
    /\ calc.op = "backoff" /\ calc.n < MaxRetryCount
    /\ calc' = [calc EXCEPT !.out = Backoff(calc.n), !.was = calc.n, !.n = @ + 1]
    /\ UNCHANGED <<supVars, podVars, tuiVars, bgVars>>

\* Service.GetContext, Service.GetNamespace
GetContext(serviceValue, globalContext) ==
    IF serviceValue # "" THEN serviceValue ELSE globalContext

GetNamespace(serviceValue, globalNamespace) ==
    IF serviceValue # "" THEN serviceValue ELSE globalNamespace

\* ProxyService.GetContext, ProxyService.GetNamespace, ProxyService.GetMaxRetries
ProxyGetContext(serviceValue, globalContext) ==
    IF serviceValue # "" THEN serviceValue ELSE globalContext

ProxyGetNamespace(serviceValue, globalNamespace) ==
    IF serviceValue # "" THEN serviceValue ELSE globalNamespace

ProxyGetMaxRetries(serviceValue, globalMaxRetries) ==
    IF serviceValue # Nil THEN serviceValue[1] ELSE globalMaxRetries

\* the settings of one service and of the configuration around it, as
\* unmarshalled and defaulted by LoadConfig
RetryValues == InfiniteRetries..MaxRetriesValue

Settings ==
    [type : {"Service", "ProxyService"},
     Context : {"", "ctx-svc"}, Namespace : {"", "ns-svc"},
     MaxRetries : {Nil} \cup {<<v>> : v \in RetryValues},
     globalContext : {"", "ctx-global"}, globalNamespace : {"", "ns-global"},
     globalMaxRetries : RetryValues]

\* the three getters of a service; for a Service the values NewPortForward
\* stores in the forward it builds
Effective(x) ==
    IF x.type = "Service"
    THEN [context |-> GetContext(x.Context, x.globalContext),
          namespace |-> GetNamespace(x.Namespace, x.globalNamespace),
          maxRetries |-> NewPortForward(GetMaxRetries(x.MaxRetries, x.globalMaxRetries),
                                        FALSE).maxRetries]
    ELSE [context |-> ProxyGetContext(x.Context, x.globalContext),
          namespace |-> ProxyGetNamespace(x.Namespace, x.globalNamespace),
          maxRetries |-> ProxyGetMaxRetries(x.MaxRetries, x.globalMaxRetries)]

EffectiveStep ==
    /\ calc.op = "settings" /\ ~calc.done
    /\ calc' = [calc EXCEPT !.done = TRUE, !.out = Effective(calc.in)]
    /\ UNCHANGED <<supVars, podVars, tuiVars, bgVars>>

\* GetPortUsage. One run of lsof: err is "none" (exit 0), "exit1" (exit code
\* 1: nothing listens), "exit" (another exit code) or "notfound" (the command
\* could not be run); lines are the lines of the output after the header:
\* "blank", "short" (fewer than two fields), "badpid" (the second field is
\* no number) or "proc" with a PID; details is what ps prints for the PID (""
\* on failure)
PortStatusFree == "free"
PortStatusExternal == "external"

LsofLines ==
    [kind : {"blank", "short", "badpid"}, pid : {0}] \cup [kind : {"proc"}, pid : 1..MaxPid]

LsofRuns ==
    [err : {"exit1", "exit", "notfound"}, lines : {<<>>}, details : {""}]
    \cup [err : {"none"},
          lines : UNION {[1..k -> LsofLines] : k \in 0..MaxLsofLines},
          details : {"", "cmdline"}]

FreeInfo == [InUse |-> FALSE, PID |-> 0, ProcessInfo |-> "", Status |-> PortStatusFree]

\* the first line of the output that parses, 0 when there is none
RECURSIVE FirstParsed(_, _)
FirstParsed(lines, i) ==
    IF i > Len(lines) THEN 0
    ELSE IF lines[i].kind = "proc" THEN i
    ELSE FirstParsed(lines, i + 1)

GetPortUsage(run) ==
    IF run.err = "exit1" THEN [info |-> FreeInfo, err |-> FALSE]
    ELSE IF run.err # "none" THEN [info |-> FreeInfo, err |-> TRUE]
    ELSE LET i == FirstParsed(run.lines, 1)
         IN IF i = 0 THEN [info |-> FreeInfo, err |-> FALSE]
            ELSE [info |-> [InUse |-> TRUE, PID |-> run.lines[i].pid,
                            ProcessInfo |-> IF run.details # "" THEN run.details ELSE "command",
                            Status |-> PortStatusExternal],
                  err |-> FALSE]

\* one call of GetPortUsage
PortUsageStep ==
    /\ calc.op = "usage" /\ ~calc.done
    /\ calc' = [calc EXCEPT !.done = TRUE, !.out = GetPortUsage(calc.run)]
    /\ UNCHANGED <<supVars, podVars, tuiVars, bgVars>>

\* -------------------------------------------------------- the port checker

\* the lists of port statuses a refresh can deliver
PortLists == [1..MaxPorts -> {PortStatusFree, PortStatusExternal}]

\* NewPortCheckerModel and the commands of Init(): one refresh, one tick
NewPortCheckerModel ==
    [op |-> "checker", ports |-> <<>>, cursor |-> 0, loading |-> TRUE, cancelled |-> FALSE,
     showingKill |-> FALSE, killStatus |-> "", errorMessage |-> "",
     tick |-> TRUE, refreshes |-> 1]

\* the commands a call of Update returns
NoCmd == [refresh |-> FALSE, tick |-> FALSE]

\* PortCheckerModel.updateKillConfirmation; killed: KillProcess succeeds
updateKillConfirmation(m, msg, killed) ==
    IF msg.type = "key" /\ msg.key = "y"
    THEN [m |-> [m EXCEPT !.showingKill = FALSE, !.loading = TRUE,
                          !.errorMessage = IF killed THEN "killed" ELSE "killfailed"],
          cmd |-> [refresh |-> TRUE, tick |-> FALSE]]
    ELSE IF msg.type = "key" /\ msg.key = "n"
    THEN [m |-> [m EXCEPT !.showingKill = FALSE], cmd |-> NoCmd]
    ELSE [m |-> m, cmd |-> NoCmd]

\* PortCheckerModel.Update
PortCheckerUpdate(m, msg, killed) ==
    IF m.showingKill THEN updateKillConfirmation(m, msg, killed)
    ELSE IF msg.type = "refreshed"
    THEN [m |-> [m EXCEPT !.ports = msg.ports, !.loading = FALSE], cmd |-> NoCmd]
    ELSE IF msg.type = "tick"
    THEN [m |-> m, cmd |-> [refresh |-> TRUE, tick |-> TRUE]]
    ELSE IF msg.type # "key" THEN [m |-> m, cmd |-> NoCmd]
    ELSE IF msg.key = "q" THEN [m |-> [m EXCEPT !.cancelled = TRUE], cmd |-> NoCmd]
    ELSE IF msg.key = "up"
    THEN [m |-> [m EXCEPT !.cursor = IF @ > 0 THEN @ - 1 ELSE @], cmd |-> NoCmd]
    ELSE IF msg.key = "down"
    THEN [m |-> [m EXCEPT !.cursor = IF @ < Len(m.ports) - 1 THEN @ + 1 ELSE @],
          cmd |-> NoCmd]
    ELSE IF msg.key = "r"
    THEN [m |-> [m EXCEPT !.loading = TRUE], cmd |-> [refresh |-> TRUE, tick |-> FALSE]]
    ELSE IF msg.key = "K" /\ m.cursor < Len(m.ports)
                          /\ m.ports[m.cursor + 1] # PortStatusFree
    THEN [m |-> [m EXCEPT !.showingKill = TRUE, !.killStatus = m.ports[m.cursor + 1]],
          cmd |-> NoCmd]
    ELSE [m |-> m, cmd |-> NoCmd]

\* the runtime hands msg to Update and runs the commands it returns
Deliver(msg, killed) ==
    LET r == PortCheckerUpdate(calc, msg, killed)
    IN /\ r.cmd.refresh => calc.refreshes < MaxRefreshes \/ msg.type = "refreshed"
       /\ calc' = [r.m EXCEPT
                     !.tick = IF msg.type = "tick" THEN r.cmd.tick ELSE @ \/ r.cmd.tick,
                     !.refreshes = (IF msg.type = "refreshed" THEN @ - 1 ELSE @)
                                   + (IF r.cmd.refresh THEN 1 ELSE 0)]
       /\ UNCHANGED <<supVars, podVars, tuiVars, bgVars>>

\* the 2-second tick fires
CheckerTick ==
    /\ calc.op = "checker" /\ ~calc.cancelled /\ calc.tick
    /\ Deliver([type |-> "tick"], FALSE)

\* a refresh has finished
CheckerRefreshed(ports) ==
    /\ calc.op = "checker" /\ ~calc.cancelled /\ calc.refreshes > 0
    /\ Deliver([type |-> "refreshed", ports |-> ports], FALSE)

\* the user presses a key
CheckerKey(key, killed) ==
    /\ calc.op = "checker" /\ ~calc.cancelled
    /\ Deliver([type |-> "key", key |-> key], killed)

\* ------------------------------------------------------------ the mutexes

\* the lock operations of one call, in program order; "fwd" is
\* ProxyForward.mu, "tap" SqlTapManager.mu, "mgr" ProxyPodManager.mu
Lock(l) == [do |-> "lock", mu |-> l]

Unlock(l) == [do |-> "unlock", mu |-> l]

\* a method that takes one mutex and releases it by defer
Locked(l) == <<Lock(l), Unlock(l)>>

\* a Start() whose tap-failure path returns without taking the lock again
StartWithoutRelock(path) ==
    IF path = "rejected" THEN Locked("fwd")
    ELSE IF path \in {"noport", "spawnfail"}
    THEN <<Lock("fwd")>> \o Locked("mgr") \o <<Unlock("fwd")>>
    ELSE IF path = "notap"
    THEN <<Lock("fwd")>> \o Locked("mgr") \o Locked("tap") \o <<Unlock("fwd")>>
    ELSE IF path = "tapfail"
    THEN <<Lock("fwd")>> \o Locked("mgr") \o Locked("tap") \o <<Unlock("fwd")>>
         \o Locked("tap") \o <<Unlock("fwd")>>
    ELSE <<Lock("fwd")>> \o Locked("mgr") \o Locked("tap") \o <<Unlock("fwd")>>
         \o Locked("tap") \o Locked("fwd")

\* ProxyForward.Start on each of its paths: already running; GetPodPort finds
\* no port; the spawn fails; sql-tap not enabled; the tap's Start() fails;
\* the tap's Start() succeeds
StartPaths == {"rejected", "noport", "spawnfail", "notap", "tapfail", "tapok"}

StartLocks(path) ==
    IF path = "rejected" THEN Locked("fwd")
    ELSE IF path \in {"noport", "spawnfail"}
    THEN <<Lock("fwd")>> \o Locked("mgr") \o <<Unlock("fwd")>>
    ELSE IF path = "notap"
    THEN <<Lock("fwd")>> \o Locked("mgr") \o Locked("tap") \o <<Unlock("fwd")>>
    ELSE <<Lock("fwd")>> \o Locked("mgr") \o Locked("tap") \o <<Unlock("fwd")>>
         \o Locked("tap") \o Locked("fwd")

\* ProxyForward.Stop on each of its paths: not running; sql-tap not enabled;
\* the tap is stopped first
StopPaths == {"atrest", "notap", "tap"}

StopLocks(path) ==
    IF path = "atrest" THEN Locked("fwd")
    ELSE IF path = "notap" THEN <<Lock("fwd")>> \o Locked("tap") \o <<Unlock("fwd")>>
    ELSE <<Lock("fwd")>> \o Locked("tap") \o <<Unlock("fwd")>> \o Locked("tap") \o Locked("fwd")

\* the other entry points: the monitors, the status reads, the pod manager's
\* calls, and the direct forward's monitor with its retry
OtherCalls == {"monitor", "GetStatus", "tapmonitor", "CreatePodWithServices", "retry"}

OtherLocks(fn) ==
    IF fn \in {"monitor", "GetStatus"} THEN Locked("fwd")
    ELSE IF fn = "tapmonitor" THEN Locked("tap")
    ELSE IF fn = "CreatePodWithServices" THEN Locked("mgr")
    ELSE Locked("fwd") \o Locked("fwd") \o Locked("fwd")

Entries ==
    {[fn |-> "Start", path |-> q] : q \in StartPaths}
    \cup {[fn |-> "Stop", path |-> q] : q \in StopPaths}
    \cup {[fn |-> f, path |-> ""] : f \in OtherCalls}

LocksOf(e) ==
    IF e.fn = "Start" THEN StartLocks(e.path)
    ELSE IF e.fn = "Stop" THEN StopLocks(e.path)
    ELSE OtherLocks(e.fn)

Threads == 1..MaxThreads

IdleThread == [fn |-> "idle", path |-> "", pc |-> 0, held |-> <<>>]

NoLocks ==
    [op |-> "locks", mu |-> [l \in {"fwd", "tap", "mgr"} |-> 0],
     th |-> [t \in Threads |-> IdleThread], fatal |-> FALSE]

\* the operation thread t executes next
NextOp(t) == LocksOf(calc.th[t])[calc.th[t].pc]

\* sync.Mutex.Lock proceeds when nobody holds the mutex
CanStep(t) ==
    /\ calc.th[t].fn # "idle"
    /\ calc.th[t].pc <= Len(LocksOf(calc.th[t]))
    /\ NextOp(t).do = "lock" => calc.mu[NextOp(t).mu] = 0

Without(q, l) == SelectSeq(q, LAMBDA x : x # l)

\* a goroutine enters one of the calls
LockCall(t, e) ==
    /\ calc.op = "locks" /\ ~calc.fatal
    /\ calc.th[t].fn = "idle"
    /\ calc' = [calc EXCEPT !.th[t] = [fn |-> e.fn, path |-> e.path, pc |-> 1, held |-> <<>>]]
    /\ UNCHANGED <<supVars, podVars, tuiVars, bgVars>>

\* a goroutine executes its next Lock() or Unlock(); unlocking a mutex that
\* is not locked is a fatal error of the runtime
LockStep(t) ==
    /\ calc.op = "locks" /\ ~calc.fatal
    /\ CanStep(t)
    /\ LET o == NextOp(t)
       IN calc' = IF o.do = "lock"
                  THEN [calc EXCEPT !.mu[o.mu] = t, !.th[t].pc = @ + 1,
                                    !.th[t].held = Append(@, o.mu)]
                  ELSE IF calc.mu[o.mu] = 0
                  THEN [calc EXCEPT !.fatal = TRUE]
                  ELSE [calc EXCEPT !.mu[o.mu] = 0, !.th[t].pc = @ + 1,
                                    !.th[t].held = Without(@, o.mu)]
    /\ UNCHANGED <<supVars, podVars, tuiVars, bgVars>>

CanReturn(t) == calc.th[t].fn # "idle" /\ calc.th[t].pc > Len(LocksOf(calc.th[t]))

\* the call returns
LockReturn(t) ==
    /\ calc.op = "locks" /\ ~calc.fatal
    /\ CanReturn(t)
    /\ calc' = [calc EXCEPT !.th[t] = IdleThread]
    /\ UNCHANGED <<supVars, podVars, tuiVars, bgVars>>

\* ------------------------------------------------------ specification

Init ==
    /\ variant \in {"direct", "proxy"}
    /\ \E cfg \in ConfigChoices : cfgGlobal = cfg[1] /\ cfgService = cfg[2]
    /\ variant = "proxy" => cfgGlobal = 0 /\ cfgService = Nil
    /\ portBusy \in BOOLEAN
    /\ variant = "proxy" => ~portBusy
    /\ pf = NewPortForward(GetMaxRetries(cfgService, LoadConfigMaxRetries(cfgGlobal)),
                           variant = "direct" /\ portBusy)
    /\ px = NewProxyForward
    /\ tap \in {NewSqlTapManager(e) : e \in IF variant = "proxy" THEN BOOLEAN ELSE {FALSE}}
    /\ procs = [i \in ProcIds |-> "unborn"]
    /\ mon = [i \in ProcIds |-> IdleMon]
    /\ call = [c \in Callers |-> NoCall]
    /\ hist = InitHist
    /\ PodInit([s \in Services |-> s], FALSE)
    /\ switched = FALSE /\ pmu = FreeMu /\ calc = NoCalc
    /\ BgInit

Next ==
    \/ \E ok \in BOOLEAN : UserStart(ok)
    \/ UserStop
    \/ \E m \in ProcIds : PFMonitorWait(m)
    \/ \E m \in ProcIds : PFMonitorObserve(m)
    \/ \E m \in ProcIds, ok \in BOOLEAN : PFMonitorRetry(m, ok)
    \/ \E m \in ProcIds : PFMonitorRetryFailed(m)
    \/ \E p \in ProcIds, clean \in BOOLEAN : ProcExit(p, clean)
    \/ PortChange
    \/ \E c \in Callers, exists \in BOOLEAN, ok \in BOOLEAN : PXStartBegin(c, exists, ok)
    \/ \E c \in Callers, ok \in BOOLEAN, early \in {"no", "exit0", "exiterr"} :
          PXStartTap(c, ok, early)
    \/ \E c \in Callers : PXStartFail(c)
    \/ \E c \in Callers : PXStartEnd(c)
    \/ \E c \in Callers : PXStopBegin(c)
    \/ \E c \in Callers : PXStopTap(c)
    \/ \E c \in Callers : PXStopEnd(c)
    \/ \E m \in ProcIds : PXMonitorWait(m)
    \/ \E m \in ProcIds : PXMonitorObserve(m)
    \/ \E m \in ProcIds : TapMonitorWait(m)
    \/ \E m \in ProcIds : TapMonitorObserve(m)

Spec == Init /\ [][Next]_vars

\* the direct forward with its conflict status refreshed at any moment
InitRefresh == Init /\ variant = "direct"

NextRefresh ==
    \/ \E ok \in BOOLEAN : UserStart(ok)
    \/ UserStop
    \/ UserRefresh
    \/ \E m \in ProcIds : PFMonitorWait(m)
    \/ \E m \in ProcIds : PFMonitorObserve(m)
    \/ \E m \in ProcIds, ok \in BOOLEAN : PFMonitorRetry(m, ok)
    \/ \E m \in ProcIds : PFMonitorRetryFailed(m)
    \/ \E p \in ProcIds, clean \in BOOLEAN : ProcExit(p, clean)
    \/ PortChange

SpecRefresh == InitRefresh /\ [][NextRefresh]_vars

\* AppModel.switchContext: pf.Stop() for every forward of the management
\* model, which is then replaced by a new one; the old forward is out of the
\* user's reach from here on
SwitchContext ==
    /\ variant = "direct" /\ ~switched
    /\ pf' = PFStop(pf)
    /\ procs' = IF AlreadyRunning(pf.Status) THEN Cancel(procs, pf.cancel) ELSE procs
    /\ hist' = [hist EXCEPT !.run = "mixed", !.retries = 0, !.stopped = TRUE,
                            !.ev = Event("Stop", "switch", pf.Status, "ok")]
    /\ switched' = TRUE
    /\ UNCHANGED <<podVars, bgVars, pmu, pureVars, variant, cfgGlobal, cfgService, px, tap, mon, call, portBusy>>

\* a direct forward of the management model across a context switch
InitSwitch == Init /\ variant = "direct"

NextSwitch ==
    \/ ~switched /\ \E ok \in BOOLEAN : UserStart(ok)
    \/ ~switched /\ UserStop
    \/ SwitchContext
    \/ \E m \in ProcIds : PFMonitorWait(m)
    \/ \E m \in ProcIds : PFMonitorObserve(m)
    \/ \E m \in ProcIds, ok \in BOOLEAN : PFMonitorRetry(m, ok)
    \/ \E m \in ProcIds : PFMonitorRetryFailed(m)
    \/ \E p \in ProcIds, clean \in BOOLEAN : ProcExit(p, clean)
    \/ PortChange

SpecSwitch == InitSwitch /\ [][NextSwitch]_vars

\* background mode: MaxInstances launches of the tool with --background
\* --default, a configuration with one default direct forward
InitBackground == Init /\ variant = "direct" /\ cfgGlobal = 0 /\ cfgService = Nil /\ ~portBusy

NextBackground ==
    \/ \E i \in Instances : BgLaunch(i, FALSE)
    \/ \E i \in Instances, ok \in BOOLEAN : BgStartDefaults(i, ok)
    \/ \E i \in Instances : BgWaitDone(i)
    \/ \E i \in Instances : BgWaitTimeout(i)
    \/ \E i \in Instances : BgSignal(i)
    \/ \E i \in Instances, d \in {"fail", "gone", "stuck"} : BgStopAll(i, d)
    \/ \E i \in Instances : BgExit(i)
    \/ \E i \in Instances : BgCrash(i)
    \/ \E i \in Instances, clean \in BOOLEAN : BgProcExit(i, clean)
    \/ \E i \in Instances : BgMonitorObserve(i)
    \/ \E i \in Instances, ok \in BOOLEAN : BgMonitorRetry(i, ok)

SpecBackground == InitBackground /\ [][NextBackground]_vars

\* background mode with the proxy pod: one launch of the tool with
\* --background --default --default-proxy, a configuration with one default
\* direct forward and one default proxy service, a cluster that may still
\* hold a pod of an earlier run
InitBackgroundProxy ==
    /\ variant = "direct" /\ cfgGlobal = 0 /\ cfgService = Nil /\ portBusy = FALSE
    /\ pf = NewPortForward(GetMaxRetries(cfgService, LoadConfigMaxRetries(cfgGlobal)), FALSE)
    /\ px = NewProxyForward
    /\ tap = NewSqlTapManager(FALSE)
    /\ procs = [i \in ProcIds |-> "unborn"]
    /\ mon = [i \in ProcIds |-> IdleMon]
    /\ call = [c \in Callers |-> NoCall]
    /\ hist = InitHist
    /\ \E exists \in BOOLEAN : PodInit([s \in Services |-> s], exists)
    /\ switched = FALSE /\ pmu = FreeMu /\ calc = NoCalc
    /\ BgInit

NextBackgroundProxy ==
    \/ BgLaunch(1, TRUE)
    \/ \E ok \in BOOLEAN : BgStartDefaults(1, ok)
    \/ \E c \in Answers, ok \in BOOLEAN : BgStartDefaultProxy(1, c, ok)
    \/ BgWaitDone(1)
    \/ BgWaitTimeout(1)
    \/ BgSignal(1)
    \/ \E d \in {"fail", "gone", "stuck"} : BgStopAll(1, d)
    \/ BgExit(1)
    \/ \E clean \in BOOLEAN : BgProcExit(1, clean)
    \/ BgMonitorObserve(1)
    \/ \E ok \in BOOLEAN : BgMonitorRetry(1, ok)
    \/ \E clean \in BOOLEAN : BgPxProcExit(1, clean)
    \/ BgPxMonitorObserve(1)

SpecBackgroundProxy == InitBackgroundProxy /\ [][NextBackgroundProxy]_vars

\* everything but the function under evaluation, as constructed
AtConstruction ==
    /\ variant = "direct" /\ cfgGlobal = 0 /\ cfgService = Nil /\ portBusy = FALSE
    /\ pf = NewPortForward(GetMaxRetries(cfgService, LoadConfigMaxRetries(cfgGlobal)), FALSE)
    /\ px = NewProxyForward
    /\ tap = NewSqlTapManager(FALSE)
    /\ procs = [i \in ProcIds |-> "unborn"]
    /\ mon = [i \in ProcIds |-> IdleMon]
    /\ call = [c \in Callers |-> NoCall]
    /\ hist = InitHist
    /\ PodInit([s \in Services |-> s], FALSE)
    /\ switched = FALSE /\ pmu = FreeMu
    /\ BgInit

\* the backoff computation for every value of the retry counter
InitBackoff ==
    /\ AtConstruction
    /\ \E n \in 0..MaxRetryCount : calc = [op |-> "backoff", n |-> n, was |-> -1, out |-> 0]

NextBackoff == BackoffStep

SpecBackoff == InitBackoff /\ [][NextBackoff]_vars

\* the getters for every combination of settings
InitSettings ==
    /\ AtConstruction
    /\ \E x \in Settings :
          calc = [op |-> "settings", in |-> x, done |-> FALSE,
                  out |-> [context |-> "", namespace |-> "", maxRetries |-> 0]]

NextSettings == EffectiveStep

SpecSettings == InitSettings /\ [][NextSettings]_vars

\* GetPortUsage for every run of lsof
InitPortUsage ==
    /\ AtConstruction
    /\ \E run \in LsofRuns :
          calc = [op |-> "usage", run |-> run, done |-> FALSE,
                  out |-> [info |-> FreeInfo, err |-> FALSE]]

NextPortUsage == PortUsageStep

SpecPortUsage == InitPortUsage /\ [][NextPortUsage]_vars

\* the port-checker screen from its opening to its closing
InitChecker == AtConstruction /\ calc = NewPortCheckerModel

NextChecker ==
    \/ CheckerTick
    \/ \E ports \in PortLists : CheckerRefreshed(ports)
    \/ \E key \in {"q", "up", "down", "r", "K", "y", "n"}, killed \in BOOLEAN :
          CheckerKey(key, killed)

SpecChecker == InitChecker /\ [][NextChecker]_vars

\* goroutines calling into one proxy forward, its tap and the pod manager
InitLocks == AtConstruction /\ calc = NoLocks

NextLocks ==
    \/ \E t \in Threads, e \in Entries : LockCall(t, e)
    \/ \E t \in Threads : LockStep(t)
    \/ \E t \in Threads : LockReturn(t)

SpecLocks == InitLocks /\ [][NextLocks]_vars

\* the proxy pod manager and the forwards behind it: a configuration of
\* MaxServices proxy services without sql-tap, a cluster that may still hold
\* a pod of an earlier run
InitPod ==
    /\ variant = "proxy"
    /\ cfgGlobal = 0 /\ cfgService = Nil
    /\ portBusy = FALSE
    /\ pf = NewPortForward(GetMaxRetries(cfgService, LoadConfigMaxRetries(cfgGlobal)), FALSE)
    /\ px = NewProxyForward
    /\ tap = NewSqlTapManager(FALSE)
    /\ procs = [i \in ProcIds |-> "unborn"]
    /\ mon = [i \in ProcIds |-> IdleMon]
    /\ call = [c \in Callers |-> NoCall]
    /\ hist = InitHist
    /\ \E names \in [Services -> ServiceNames], exists \in BOOLEAN : PodInit(names, exists)
    /\ switched = FALSE /\ pmu = FreeMu /\ calc = NoCalc
    /\ BgInit

\* the pod manager on its own
NextPod ==
    \/ \E sel \in Selections, c \in Answers : CreatePodCall(sel, c)
    \/ \E d \in {"fail", "gone", "stuck"} : DeletePodCall(d)

SpecPod == InitPod /\ [][NextPod]_vars

\* the pod manager with the polls of every readiness wait
InitReady == InitPod /\ proxyServices = [s \in Services |-> s]

NextReady ==
    \/ \E sel \in Selections :
          \E c \in ClusterAnswers(podExists, sel), polls \in PollRuns :
             CreatePodPolled(sel, c, polls)
    \/ \E d \in {"fail", "gone", "stuck"} : DeletePodCall(d)

SpecReady == InitReady /\ [][NextReady]_vars

\* the tap daemon variant, started and stopped by its parent forward
InitRetryTap ==
    /\ variant = "proxy"
    /\ cfgGlobal = 0 /\ cfgService = Nil
    /\ portBusy = FALSE
    /\ pf = NewPortForward(GetMaxRetries(cfgService, LoadConfigMaxRetries(cfgGlobal)), FALSE)
    /\ px = NewProxyForward
    /\ tap = NewRetryTap
    /\ procs = [i \in ProcIds |-> "unborn"]
    /\ mon = [i \in ProcIds |-> IdleMon]
    /\ call = [c \in Callers |-> NoCall]
    /\ hist = InitHist
    /\ PodInit([s \in Services |-> s], FALSE)
    /\ switched = FALSE /\ pmu = FreeMu /\ calc = NoCalc
    /\ BgInit

NextRetryTap ==
    \/ \E found \in BOOLEAN, ok \in BOOLEAN : RetryTapParentStart(found, ok)
    \/ RetryTapParentStop
    \/ \E m \in ProcIds : RetryTapMonitorWait(m)
    \/ \E m \in ProcIds : RetryTapMonitorObserve(m)
    \/ \E m \in ProcIds, found \in BOOLEAN, ok \in BOOLEAN : RetryTapMonitorRetry(m, found, ok)
    \/ \E m \in ProcIds : RetryTapMonitorRetryFailed(m)
    \/ \E p \in ProcIds, clean \in BOOLEAN : ProcExit(p, clean)

SpecRetryTap == InitRetryTap /\ [][NextRetryTap]_vars

\* applying a selection, and the forwards behind the pod
NextApply ==
    \/ \E sel \in Selections : ApplyBegin(sel)
    \/ \E c \in Answers : ApplyRebuild(c)
    \/ \E ok \in BOOLEAN : ApplyStartNext(ok)
    \/ \E sel \in Selections, c \in Answers : CreatePodCall(sel, c)
    \/ \E n \in ServiceNames, ok \in BOOLEAN : FwdStart(n, ok)
    \/ \E n \in ServiceNames : FwdStop(n)
    \/ \E d \in {"fail", "gone", "stuck"} : DeletePodCall(d)
    \/ \E m \in ProcIds : FwdMonitorWait(m)
    \/ \E m \in ProcIds : FwdMonitorObserve(m)
    \/ \E p \in ProcIds, clean \in BOOLEAN : ProcExit(p, clean)

SpecApply == InitPod /\ [][NextApply]_vars

\* the pod manager called from a goroutine while the view polls its status
NextPoll ==
    \/ \E sel \in Selections : CreateLock(sel)
    \/ \E c \in Answers : CreateFinish(c)
    \/ GetStatusCall
    \/ GetStatusReturn
    \/ ~pmu.held /\ \E d \in {"fail", "gone", "stuck"} : DeletePodCall(d)

SpecPoll == InitPod /\ [][NextPoll]_vars

\* ------------------------------------------------------ retry and backoff

\* the forward is supervised by no monitor goroutine any more
NoMonitor == \A m \in ProcIds : mon[m].kind # "pf"

\* C1: a direct forward with max_retries = N >= 1 whose subprocess spawns and
\* exits non-zero every time, never stopped and never in conflict, is retried
\* exactly N times, the k-th retry after min(2^(k-1), 60) seconds, and once
\* the N-th retry has failed it rests in Error with retrying = false and the
\* text "Failed after N retries".
C1_ExactlyNRetries ==
    (/\ variant = "direct" /\ hist.run = "plain" /\ pf.maxRetries >= 1
     /\ pf.ErrorMessage.kind \notin {"spawnfail", "retryfailed"})
    => /\ hist.retries <= pf.maxRetries
       /\ \A m \in ProcIds :
             mon[m].pc = "sleeping" => mon[m].backoff = Backoff(hist.retries - 1)
       /\ (pf.Status = StatusError /\ NoMonitor)
             => /\ hist.retries = pf.maxRetries
                /\ ~pf.retrying
                /\ pf.ErrorMessage = Msg("exited", pf.maxRetries)

\* C2: when the monitor observes the exit of a subprocess that Stop() has
\* cancelled, whatever was called in between, it schedules no retry (and so
\* calls no Start()) and does not set the status to Error.
C2_StoppedExitIsQuiet ==
    [][\A m \in ProcIds :
          (PFMonitorObserve(m) /\ mon[m].cmd = m /\ procs[m] = "killed")
          => /\ mon'[m].pc # "sleeping"
             /\ ~pf'.retrying
             /\ pf'.Status = StatusError => pf' = pf]_vars

\* C3: once the user has called Stop(), in whatever state the forward was, no
\* monitor makes a start attempt until the user starts the forward again.
C3_NoStartAfterStop ==
    [][hist.stopped => ~(\E m \in ProcIds, ok \in BOOLEAN : PFMonitorRetry(m, ok))]_vars

\* ------------------------------------------------- rejection and conflict

Busy == {StatusRunning, StatusStarting}

C5_ConflictEndsRetries ==
    [][/\ \A ok \in BOOLEAN :
             (UserStart(ok) /\ pf.Status \notin Busy /\ portBusy)
             => /\ hist'.ev.ret = "conflict" /\ procs' = procs /\ mon' = mon
                /\ pf'.Status = StatusError /\ pf'.manualStop /\ pf'.HasConflict
       /\ \A m \in ProcIds, ok \in BOOLEAN :
             (PFMonitorRetry(m, ok) /\ pf.Status \notin Busy /\ portBusy)
             => /\ hist'.ev.ret = "conflict" /\ procs' = procs
                /\ pf'.Status = StatusError /\ pf'.manualStop /\ pf'.HasConflict
       /\ \A m \in ProcIds :
             (PFMonitorRetryFailed(m) /\ pf.manualStop)
             => pf'.Status = StatusError /\ ~pf'.retrying
       /\ hist.conflict => \A m \in ProcIds, ok \in BOOLEAN :
                               PFMonitorRetry(m, ok) => procs' = procs]_vars

\* ------------------------------------------------------ the dependent tap

\* C6: in every reachable state the tap is Starting or Running only while its
\* parent forward is Running.
C6_TapInsideParent ==
    (variant = "proxy" /\ tap.status \in Busy) => px.Status = StatusRunning

\* C7: with the tap enabled, the tap's Start() is invoked only after the
\* parent's subprocess has been spawned and the settle delay is over, and a
\* Stop() issues the parent's cancellation only after its call of the tap's
\* Stop() has returned.
C7_TapOrder ==
    [][/\ \A c \in Callers, ok \in BOOLEAN, early \in {"no", "exit0", "exiterr"} :
             PXStartTap(c, ok, early)
             => /\ call[c].proc \in ProcIds /\ procs[call[c].proc] # "unborn"
                /\ mon[call[c].proc].pc # "idle"
       /\ \A c \in Callers :
             (/\ tap.enabled /\ (px'.cancel # px.cancel \/ procs' # procs)
              /\ (PXStopBegin(c) \/ PXStopEnd(c)))
             => call[c].op = "Stop" /\ call[c].tapDone]_vars

\* a Stop() of a forward with its tap has returned: the tap's Stop() had
\* returned, then the parent was cancelled
C7_Witness ==
    /\ tap.enabled /\ hist.ev.op = "Stop" /\ hist.ev.pre = StatusRunning
    /\ hist.ev.tapDone /\ hist.ev.cancelled

\* C8: when the tap fails to start during a forward's Start(), the subprocess
\* that Start() spawned is cancelled, Start() returns an error and the status
\* is Error; the status is still Error after the monitor has observed the
\* cancelled subprocess's exit.
C8_TapFailureTearsDown ==
    [][/\ \A c \in Callers :
             PXStartFail(c)
             => /\ procs'[call[c].proc] # "alive"
                /\ px'.Status = StatusError
                /\ hist'.ev.op = "Start" /\ hist'.ev.ret = "taperr"
       /\ \A m \in ProcIds :
             (PXMonitorObserve(m) /\ px.ErrorMessage.kind = "taperr")
             => px'.Status = StatusError]_vars

\* ------------------------------------------------------- retry ceilings

\* max_retries is configured as 0, globally or for the service
ConfiguredZero ==
    IF cfgService # Nil THEN cfgService[1] = 0 ELSE cfgGlobal = 0

\* C9: with max_retries configured as 0, as the global setting or as the
\* per-service override, a failed forward is never retried: no monitor sleeps
\* a backoff, retrying stays false.
C9_ZeroMeansNoRetry ==
    (variant = "direct" /\ ConfiguredZero)
    => ~pf.retrying /\ \A m \in ProcIds : mon[m].pc # "sleeping"

\* C10: while retries remain, without Stop() and without port conflict, the
\* forward never settles in Error: after every failed attempt, a retry whose
\* subprocess fails to spawn included, a monitor is still at work on the next
\* attempt.
C10_NeverSettlesWhileRetriesRemain ==
    (/\ variant = "direct" /\ hist.run = "plain" /\ hist.retries >= 1
     /\ pf.Status = StatusError
     /\ (pf.maxRetries = InfiniteRetries \/ pf.retryCount < pf.maxRetries))
    => ~NoMonitor

\* ------------------------------------------------------- proxy restarts

\* C11: a proxy forward whose subprocess exits with an error while the
\* forward is Running (no Stop() was called) is restarted: the monitor that
\* observes the exit stays at work on a next attempt instead of ending.
C11_ProxyRestarts ==
    [][\A m \in ProcIds :
          (/\ variant = "proxy" /\ px.Status = StatusRunning
           /\ mon[m].kind = "px" /\ mon[m].pc = "waiting"
           /\ mon[m].cmd = px.cmd /\ px.cmd # NoProc
           /\ procs[px.cmd] = "exiterr"
           /\ PXMonitorObserve(m))
          => mon'[m] # DoneMon]_vars

\* --------------------------------------------------- the pod manager

\* the manager's last call was CreatePodWithServices
Created == plog.pod.op = "CreatePodWithServices"

\* the names of the services of selection sel
NamesOf(sel) == {proxyServices[sel[i]] : i \in 1..Len(sel)}

\* C12: after CreatePodWithServices(S) has returned success for a non-empty
\* S, whatever the manager held before: status is Ready, the active services
\* are exactly S, the keys of the port map are exactly the names of S (a
\* service of the previous selection that is not in S has no relay port), and
\* services of S with different names have different ports.
C12_RebuildIsExact ==
    (Created /\ plog.pod.ret = "ok" /\ Len(plog.pod.sel) > 0)
    => /\ pm.status = ProxyPodStatusReady
       /\ pm.currentServices = plog.pod.sel
       /\ DOMAIN pm.podPorts = NamesOf(plog.pod.sel)
       /\ \A s \in Range(plog.pod.prev) :
             proxyServices[s] \notin NamesOf(plog.pod.sel)
             => ~GetPodPort(pm, proxyServices[s]).exists
       /\ \A s, t \in Range(plog.pod.sel) :
             proxyServices[s] # proxyServices[t]
             => pm.podPorts[proxyServices[s]] # pm.podPorts[proxyServices[t]]

\* a rebuild that drops a service of the previous selection and keeps one
C12_Witness ==
    /\ Created /\ plog.pod.ret = "ok"
    /\ Len(plog.pod.prev) > Len(plog.pod.sel) /\ Len(plog.pod.sel) > 0
    /\ \E s \in Range(plog.pod.prev) : proxyServices[s] \notin NamesOf(plog.pod.sel)
    /\ pm.status = ProxyPodStatusReady

\* C13: for any selection of n services CreatePodWithServices gives every
\* selected service its own relay port: the ports the map holds for the
\* selected services are pairwise distinct and are exactly
\* 10000 .. 10000+n-1.
C13_PortsDenseAndDistinct ==
    (Created /\ plog.pod.ret = "ok" /\ Len(plog.pod.sel) > 0)
    => LET n == Len(plog.pod.sel)
           port(i) == pm.podPorts[proxyServices[plog.pod.sel[i]]]
       IN /\ \A i, j \in 1..n : i # j => port(i) # port(j)
          /\ {port(i) : i \in 1..n} = BasePodPort..(BasePodPort + n - 1)

C15_DeleteAlwaysSucceeds ==
    plog.pod.op = "DeletePod"
    => /\ plog.pod.ret = "ok"
       /\ pm.status = ProxyPodStatusNotCreated
       /\ pm.currentServices = <<>>
       /\ pm.podPorts = NoPorts

\* ------------------------------------------ the forwards behind the pod

\* this step is a call of ProxyForward.Start
StartCalled ==
    \/ \E n \in ServiceNames, ok \in BOOLEAN : FwdStart(n, ok)
    \/ \E ok \in BOOLEAN : ApplyStartNext(ok)

\* the name of the service of the forward that the last Start() was called on
StartedName == proxyServices[fwds'[plog'.fwd.obj].svc]

\* every command spawned in this step targets the relay port that the
\* manager holds for the service at this moment
SpawnsTargetCurrentPort ==
    \A p \in ProcIds :
       (procs[p] = "unborn" /\ procs'[p] = "alive")
       => LET name == proxyServices[fwds'[cmdline'[p].by].svc]
          IN /\ name \in DOMAIN pm.podPorts
             /\ cmdline'[p].port = pm.podPorts[name]

\* C16: every ProxyForward.Start() reads the relay port of its service from
\* the manager at that moment, so that the command it spawns targets the port
\* assigned by the most recent CreatePodWithServices; when the manager holds
\* no port for the service, Start() sets status Error, spawns nothing and
\* returns an error.
C16_StartReadsPortNow ==
    [][StartCalled
       => /\ SpawnsTargetCurrentPort
          /\ StartedName \notin DOMAIN pm.podPorts
             => /\ fwds'[plog'.fwd.obj].Status = StatusError
                /\ procs' = procs
                /\ plog'.fwd.ret # "ok"]_vars

\* C16, amended: as above, but a forward that is already Running or Starting
\* is turned away before the port is looked up: it keeps its status, spawns
\* nothing and Start() returns the "already running" error.
C16_StartReadsPortUnlessRunning ==
    [][StartCalled
       => /\ SpawnsTargetCurrentPort
          /\ StartedName \notin DOMAIN pm.podPorts
             => /\ procs' = procs
                /\ IF AlreadyRunning(plog'.fwd.pre)
                   THEN /\ fwds'[plog'.fwd.obj] = fwds[plog'.fwd.obj]
                        /\ plog'.fwd.ret = "rejected"
                   ELSE /\ fwds'[plog'.fwd.obj].Status = StatusError
                        /\ plog'.fwd.ret = "notfound"]_vars

\* one forward has spawned two commands, the second for another relay port
\* than the first, after the pod was rebuilt in between
C16_Witness ==
    \E p, q \in ProcIds :
       /\ p < q /\ cmdline[p].by # 0 /\ cmdline[p].by = cmdline[q].by
       /\ cmdline[p].port # cmdline[q].port
       /\ procs[q] = "alive"
       /\ cmdline[q].port = pm.podPorts[proxyServices[fwds[cmdline[q].by].svc]]

\* C17: applying a selection S stops every existing proxy forward before the
\* pod is rebuilt; only after a successful rebuild with S are forwards
\* started, one fresh forward per service of S, a failing Start() not
\* keeping the others from being started; when the rebuild fails no forward
\* is started and the error is returned.
C17_ApplyOrder ==
    /\ apply.pc = "rebuild" => \A o \in DOMAIN fwds : ~AlreadyRunning(fwds[o].Status)
    /\ apply.pc = "start"
       => /\ pm.status = ProxyPodStatusReady /\ pm.currentServices = apply.sel
          /\ plog.app.started = apply.i - 1
    /\ (apply.pc = "idle" /\ plog.app.ret = "ok") => plog.app.started = plog.app.n
    /\ (apply.pc = "idle" /\ plog.app.ret = "err") => plog.app.started = 0

\* ---------------------------------------------------- context switch

\* C18: once a context switch is confirmed, every forward of the old
\* supervisor set is stopped, and afterwards no subprocess of an old
\* supervisor is running or gets started, a forward that was in Error waiting
\* out a retry backoff at the moment of the switch included.
C18_SwitchStopsEverything ==
    switched => /\ ~AlreadyRunning(pf.Status)
                /\ \A p \in ProcIds : procs[p] # "alive"

\* ------------------------------------------------------ background mode

\* the instances that have passed the PID file check and have not exited
Supervising ==
    {i \in Instances : inst[i].pc \in {"checked", "proxy", "waiting", "running", "cleanup"}}

\* C19: at most one background-mode instance supervises forwards at a time:
\* an instance launched while another one is alive, be it one that is still
\* starting its services and has not written the PID file yet, exits without
\* starting any service.
C19_SingleInstance ==
    /\ Cardinality(Supervising) <= 1
    /\ \A i \in Instances :
          inst[i].spawns > 0 => \A j \in Supervising : j = i \/ inst[j].spawns = 0

\* C20: the PID file is written only after the start-up wait has succeeded;
\* an instance that exits on SIGINT or SIGTERM leaves no forward running, no
\* subprocess alive and no PID file of its own; a PID file left by a process
\* that is no longer alive is removed by the next launch, which goes on.
C20_PidFileAndShutdown ==
    /\ [](\A i \in Instances :
             /\ pidFile = i => inst[i].pc \in {"running", "cleanup", "exited"}
             /\ inst[i].how = "signal"
                => /\ inst[i].proc # "alive"
                   /\ ~AlreadyRunning(inst[i].pf.Status)
                   /\ pidFile # i)
    /\ [][\A i \in Instances :
             (pidFile # NoPid /\ ~isProcessRunning(pidFile) /\ BgLaunch(i, FALSE))
             => (pidFile' = NoPid /\ inst'[i].pc = "checked")]_vars

\* C21: whenever background mode exits of its own accord after it has started
\* a forward or created the proxy pod -- on a signal, and also because
\* start-up failed (the pod creation returned an error, the start-up wait
\* timed out) -- every forward it started has been stopped, none of their
\* subprocesses is alive, and the pod it created has been deleted (unless the
\* cluster failed to carry out the delete command).
C21_ExitCleansUp ==
    \A i \in Instances :
       (inst[i].pc = "exited" /\ inst[i].how \in {"signal", "timeout", "podfail"})
       => /\ inst[i].proc # "alive" /\ inst[i].pxproc # "alive"
          /\ ~AlreadyRunning(inst[i].pf.Status) /\ ~AlreadyRunning(inst[i].px.Status)
          /\ inst[i].made => inst[i].del \in {"fail", "stuck"}

\* ------------------------------------------------------ mutual exclusion

\* a Start() or Stop() call on the proxy forward has begun and not returned
InFlight == \E c \in Callers : call[c].op # "none"

\* C22: Start(), Stop() and status reads on one forward supervisor exclude
\* each other: between the beginning and the end of a Start() or Stop() call
\* no other Start() or Stop() on the same supervisor reads or writes its
\* state and no monitor transition takes effect.
C22_CallsAreExclusive ==
    [][InFlight
       => /\ \A c \in Callers, exists \in BOOLEAN, ok \in BOOLEAN : ~PXStartBegin(c, exists, ok)
          /\ \A c \in Callers : ~PXStopBegin(c)
          /\ \A m \in ProcIds : ~PXMonitorObserve(m)]_vars

\* ------------------------------------------------------- status polls

\* C23: a status poll of the ProxyPodManager (GetStatus) that is issued while
\* a CreatePodWithServices call is in progress returns (without waiting for
\* the call to end) and reports Creating.
C23_PollSeesCreating ==
    (pmu.poll.pc = "returned" /\ pmu.poll.during) => pmu.poll.got = ProxyPodStatusCreating

\* ------------------------------------------------------------ Stop() at rest

AtRest == {StatusStopped, StatusError}

DelayTable == <<1, 2, 4, 8, 16, 32>>

\* C25: the backoff delay computed when the retry counter has value n (before
\* it is incremented) is min(2^n, 60) seconds for every n >= 0: 1, 2, 4, 8,
\* 16, 32, then 60 for all n >= 6; it never exceeds 60 seconds and does not
\* decrease as n grows.
C25_BackoffIsCappedPowerOfTwo ==
    /\ [](calc.op = "backoff" /\ calc.was >= 0
          => /\ calc.out = (IF calc.was < 6 THEN DelayTable[calc.was + 1] ELSE BackoffCapSeconds)
             /\ calc.out <= BackoffCapSeconds)
    /\ [][(calc.op = "backoff" /\ calc.was >= 0) => calc'.out >= calc.out]_vars

\* the delay was computed for a counter far beyond the cap and is 60 seconds
C25_Witness ==
    calc.op = "backoff" /\ calc.was > 30 /\ calc.out = BackoffCapSeconds

\* ------------------------------------------------------------ port usage

\* C26: if lsof is unavailable or fails to run, GetPortUsage reports the port
\* as free (InUse = false, PID 0, status free) and returns no error.
C26_LsofOutageMeansFree ==
    (calc.op = "usage" /\ calc.done /\ calc.run.err \in {"exit", "notfound"})
    => calc.out.info = FreeInfo /\ ~calc.out.err

\* ------------------------------------------------------------ settings

\* C27: for context, namespace and max_retries of both Service and
\* ProxyService the effective value is the per-service value when that is set
\* (a non-empty string; a non-nil max_retries, an explicit 0 included) and the
\* global value otherwise.
C27_ServiceValueWins ==
    (calc.op = "settings" /\ calc.done)
    => LET x == calc.in
       IN /\ x.Context # "" => calc.out.context = x.Context
          /\ x.Context = "" => calc.out.context = x.globalContext
          /\ x.Namespace # "" => calc.out.namespace = x.Namespace
          /\ x.Namespace = "" => calc.out.namespace = x.globalNamespace
          /\ x.MaxRetries # Nil => calc.out.maxRetries = x.MaxRetries[1]
          /\ x.MaxRetries = Nil => calc.out.maxRetries = x.globalMaxRetries

\* a Service that sets max_retries 0 under a global setting of unlimited
\* retries, and no context of its own: 0 retries, the global context
C27_Witness ==
    /\ calc.op = "settings" /\ calc.done /\ calc.in.type = "Service"
    /\ calc.in.MaxRetries = <<0>> /\ calc.in.globalMaxRetries = InfiniteRetries
    /\ calc.in.Context = "" /\ calc.in.globalContext # ""
    /\ calc.out.maxRetries = 0 /\ calc.out.context = calc.in.globalContext

\* C28: RefreshConflictStatus on a forward that is neither Running nor Starting
\* stores the current detection result: an occupied port gives status Error
\* with HasConflict set; a free port clears HasConflict, and a forward whose
\* Error was the port-conflict error goes back to Stopped with an empty error
\* text.  On a Running or Starting forward the call changes nothing.
C28_RefreshFollowsDetection ==
    [][UserRefresh =>
         IF AlreadyRunning(pf.Status)
         THEN pf' = pf
         ELSE /\ pf'.HasConflict = DetectPortConflict(portBusy)
              /\ DetectPortConflict(portBusy) => pf'.Status = StatusError
              /\ (/\ ~DetectPortConflict(portBusy)
                  /\ pf.Status = StatusError
                  /\ pf.ErrorMessage.kind = "conflict")
                 => pf'.Status = StatusStopped /\ pf'.ErrorMessage = NoMsg]_vars

\* a refresh found the port free again and took the forward out of its
\* port-conflict error
C28_Witness ==
    /\ hist.ev.op = "Refresh" /\ hist.ev.pre = StatusError
    /\ hist.conflict /\ ~portBusy
    /\ pf.Status = StatusStopped /\ ~pf.HasConflict /\ pf.ErrorMessage = NoMsg

\* C29: when the subprocess of a PortForward has exited with code 0 and its
\* monitor takes the locked decision while the status is Running (Stop() has
\* not been called), the forward becomes Stopped, the monitor schedules no
\* retry, and retryCount and retrying keep their values.
C29_CleanExitStops ==
    [][\A m \in ProcIds :
         (/\ PFMonitorObserve(m)
          /\ mon[m].cmd \in ProcIds /\ procs[mon[m].cmd] = "exit0"
          /\ pf.Status = StatusRunning)
         => /\ pf'.Status = StatusStopped
            /\ mon'[m] = DoneMon
            /\ pf'.retryCount = pf.retryCount
            /\ pf'.retrying = pf.retrying
            /\ pf'.manualStop = pf.manualStop]_vars

\* one user Start(), no Stop(), and the forward is Stopped: its subprocess
\* exited cleanly and the monitor has returned
C29_Witness ==
    /\ hist.calls = 1 /\ ~hist.stopped /\ variant = "direct"
    /\ pf.cmd \in ProcIds /\ procs[pf.cmd] = "reaped" /\ mon[pf.cmd] = DoneMon
    /\ pf.Status = StatusStopped /\ ~pf.manualStop
    /\ ~pf.retrying /\ pf.retryCount = 0

\* C30: when the creation command of CreatePodWithServices fails with
\* AlreadyExists (the pod has outlived the first delete), the call deletes
\* the pod once more and issues exactly one more creation command; if that
\* one fails too the status is Error and the call returns the failure.  Any
\* other creation failure is not retried, so that a call never issues more
\* than two creation commands.
C30_RetriesOnceOnAlreadyExists ==
    [][\A sel \in Selections, c \in Answers :
         (CreatePodCall(sel, c) /\ Len(sel) > 0)
         => LET first == deletePodUnsafe(c.d, podExists)
                alreadyExists == first.exists
                second == deletePodUnsafe(c.d2, TRUE)
                secondFails == second.exists \/ ~c.run2
                made == plog'.pod
            IN /\ made.creates <= 2
               /\ alreadyExists
                  => /\ made.creates = 2
                     /\ made.deletes = first.cmds + second.cmds
                     /\ secondFails
                        => pm'.status = ProxyPodStatusError /\ made.ret = "err"
               /\ ~alreadyExists
                  => /\ made.creates = 1
                     /\ made.deletes = first.cmds
                     /\ ~c.run => pm'.status = ProxyPodStatusError /\ made.ret = "err"]_vars

\* a call whose retry after AlreadyExists failed as well
C30_Witness ==
    /\ plog.pod.op = "CreatePodWithServices" /\ plog.pod.creates = 2
    /\ plog.pod.ret = "err" /\ pm.status = ProxyPodStatusError
    /\ pm.errorMessage = "retry"

\* ------------------------------------------------------------ readiness

\* the last poll of the wait saw the pod Running with condition Ready=True
SawReady(polls) ==
    /\ Len(polls) > 0
    /\ polls[Len(polls)].cmd = "ok"
    /\ polls[Len(polls)].phase = "Running" /\ polls[Len(polls)].ready

\* C31: after a successful creation command, CreatePodWithServices returns
\* success with status Ready only if a poll of the readiness wait saw the pod
\* with phase Running and condition Ready=True before the deadline; if the
\* deadline passes or a poll fails, the status is Error and the failure is
\* returned, and the manager issues no creation command after the wait.
C31_ReadyOnlyWhenPolledReady ==
    (calc.op = "wait" /\ calc.waited /\ plog.pod.op = "CreatePodWithServices")
    => /\ (plog.pod.ret = "ok" /\ pm.status = ProxyPodStatusReady) => SawReady(calc.polls)
       /\ ~SawReady(calc.polls) => pm.status = ProxyPodStatusError /\ plog.pod.ret = "err"
       /\ plog.pod.creates = IF calc.stale THEN 2 ELSE 1

\* a wait that ran into its deadline after a pod that was Running but never
\* Ready: status Error, failure returned
C31_Witness ==
    /\ calc.op = "wait" /\ calc.waited /\ plog.pod.op = "CreatePodWithServices"
    /\ Len(calc.polls) = MaxPolls
    /\ calc.polls[MaxPolls] = Poll("ok", "Running", FALSE)
    /\ pm.status = ProxyPodStatusError /\ plog.pod.ret = "err"

\* ------------------------------------------------------ during the backoff

\* C32: while a monitor sleeps through a retry backoff the forward's lock is
\* free, GetStatus, GetRetryInfo, Stop() and Start() complete, and what they
\* find is status Error with retrying = true.
C32_BackoffShowsRetrying ==
    \A m \in ProcIds :
       (mon[m].kind = "pf" /\ mon[m].pc = "sleeping")
       => pf.Status = StatusError /\ pf.retrying

\* ------------------------------------------------------ tap restarts

\* C33: a tap supervisor never restarts its subprocess on its own: once the
\* tap process has exited the status is Error or Stopped, and a new tap
\* process is spawned only by a Start() that the parent forward's Start()
\* has called.
C33_TapNeverRestartsItself ==
    (hist.ev.op = "Start" /\ hist.ev.ret = "ok") => hist.ev.by = "parent"

\* ------------------------------------------------ one subprocess, one monitor

\* the subprocesses that are alive and not cancelled (in the direct variant
\* every subprocess is the forward's)
Uncancelled == {p \in ProcIds : procs[p] = "alive"}

\* C34: at most one subprocess spawned by a PortForward is alive without
\* having been cancelled, and only the monitor of the current subprocess
\* acts on the forward's state, whatever the interleaving of Start(), Stop(),
\* exits and retries.
C34_OneSubprocessOneMonitor ==
    /\ [](variant = "direct" => Cardinality(Uncancelled) <= 1)
    /\ [][\A m \in ProcIds :
            (PFMonitorObserve(m) /\ pf' # pf) => (mon[m].cmd = m /\ pf.cmd = m)]_vars

\* C35: whenever the status of a PortForward is Stopped or Error, no
\* subprocess it has spawned is alive without having been cancelled, also
\* when the user calls Start() during a backoff and the monitor's own
\* Start() follows after the sleep.
C35_AtRestNothingAlive ==
    (variant = "direct" /\ pf.Status \in {StatusStopped, StatusError}) => Uncancelled = {}

\* ------------------------------------------------ port map and active set

\* C36: between the calls on a ProxyPodManager, the keys of the port map are
\* the names of the active services, and the active set is non-empty only
\* when the status is Ready, also after a CreatePodWithServices that failed
\* following one that succeeded.
C36_PortMapMatchesActiveSet ==
    /\ DOMAIN pm.podPorts = {proxyServices[pm.currentServices[i]] : i \in DOMAIN pm.currentServices}
    /\ pm.currentServices # <<>> => pm.status = ProxyPodStatusReady

\* ------------------------------------------------------------ lock order

\* the orders in which a goroutine holds more than one mutex
LockOrders == {<<>>, <<"fwd">>, <<"tap">>, <<"mgr">>, <<"fwd", "tap">>, <<"fwd", "mgr">>}

\* the deferred Unlock of ProxyForward.Start/Stop is the last operation
AtDeferredUnlock(t) ==
    /\ calc.th[t].fn \in {"Start", "Stop"}
    /\ calc.th[t].pc = Len(LocksOf(calc.th[t]))

\* C37: no interleaving of calls on forwards, taps and the pod manager
\* deadlocks: mutexes are nested only as forward then tap or forward then
\* manager, and ProxyForward.Start() and Stop() hold the forward's mutex
\* exactly once when their deferred Unlock runs, on every path.
C37_NoDeadlock ==
    calc.op = "locks"
    => /\ ~calc.fatal
       /\ (\E t \in Threads : calc.th[t].fn # "idle")
          => \E t \in Threads : CanStep(t) \/ CanReturn(t)
       /\ \A t \in Threads :
             /\ calc.th[t].held \in LockOrders
             /\ \A l \in {"fwd", "tap", "mgr"} :
                   calc.mu[l] = t <=> (\E i \in DOMAIN calc.th[t].held : calc.th[t].held[i] = l)
             /\ AtDeferredUnlock(t) => calc.th[t].held = <<"fwd">> /\ calc.mu["fwd"] = t

\* a Start() on the tap-failure path has taken the forward's mutex again and
\* is at its deferred Unlock, while a second goroutine inside Stop() has
\* stopped the tap and waits for the forward's mutex
C37_Witness ==
    /\ calc.op = "locks"
    /\ \E t, u \in Threads :
          /\ calc.th[t].fn = "Start" /\ calc.th[t].path = "tapfail" /\ AtDeferredUnlock(t)
          /\ calc.th[u].fn = "Stop" /\ calc.th[u].path = "tap"
          /\ calc.th[u].pc = Len(StopLocks("tap")) - 1 /\ ~CanStep(u)

\* ------------------------------------------------------------ auto-refresh

\* C38: while the port-checker screen is open the 2-second auto-refresh never
\* stops: every tick starts a refresh and schedules the next tick, also when
\* it arrives while the kill confirmation is displayed.
C38_TickNeverStops ==
    /\ []((calc.op = "checker" /\ ~calc.cancelled) => calc.tick)
    /\ [][CheckerTick => (calc'.tick /\ calc'.refreshes = calc.refreshes + 1)]_vars

\* ------------------------------------------------------- the retry counter

\* C39: for a PortForward with max_retries = N >= 0, 0 <= retryCount <= N in
\* every reachable state, under any interleaving of monitors, Start() and
\* Stop(); the counter only grows by one, in the monitor's locked section, and
\* only from a value below N.
C39_RetryCountWithinCeiling ==
    /\ [](pf.maxRetries >= 0 => pf.retryCount \in 0..pf.maxRetries)
    /\ [][pf'.retryCount > pf.retryCount =>
            /\ pf'.retryCount = pf.retryCount + 1
            /\ \E m \in ProcIds : PFMonitorObserve(m)
            /\ pf.maxRetries >= 0 => pf.retryCount < pf.maxRetries]_vars

\* a forward with a finite ceiling has used its last retry
C39_Witness ==
    /\ variant = "direct" /\ pf.maxRetries >= 1
    /\ pf.retryCount = pf.maxRetries /\ pf.retrying

====
